------------------------ MODULE MCStaticSubscribers ------------------------
(***************************************************************************)
(* Two extensions: "a" of account 100 with a filter, a permission and      *)
(* profile entries that are not accepted, "b" of a system account whose    *)
(* profile declares more than it is allowed.                               *)
(***************************************************************************)
EXTENDS StaticSubscribers

CONSTANTS a, b, e1, e2

MCEvent == {e1, e2}

Filter(code, parameters) == [code |-> code, data |-> None, parameters |-> parameters]

MCApp ==
  [k \in {a, b} |->
     IF k = a
     THEN [user |-> 100, bundle |-> "A", uid |-> 10, system |-> FALSE, granted |-> {}, name |-> "x",
           allowed |-> {e1, e2},
           profile |-> << Bad,
             [name |-> "x", permission |-> "", events |-> {e1},
              filters |-> <<Bad, [event |-> e1, conditions |-> Bad],
                            [event |-> e1, conditions |-> Filter(1, {})]>>],
             [name |-> "x", permission |-> Bad, events |-> {e2}, filters |-> <<>>],
             [name |-> "y", permission |-> "", events |-> {e2}, filters |-> <<>>],
             [name |-> "x", permission |-> "P", events |-> {e1, e2}, filters |-> <<>>] >>]
     ELSE [user |-> 0, bundle |-> "B", uid |-> 20, system |-> TRUE, granted |-> {"Q"}, name |-> "x",
           allowed |-> {e1},
           profile |-> << [name |-> "x", permission |-> "", events |-> {e1, e2},
              filters |-> <<[event |-> e1, conditions |-> Filter(None, {<<"n", "int", 1>>})]>>] >>]]

Plain(event, userId) ==
  [event |-> event, about |-> None, userId |-> userId, granted |-> {"P"}, bundleName |-> "",
   type |-> None, uids |-> {}, permissions |-> {}, maximumVersion |-> None, rule |-> "AND",
   code |-> 1, data |-> "", parameters |-> {<<"n", "int", 1>>}]

Package(event, k) == [Plain(event, App[k].user) EXCEPT !.about = k]

MCPublications ==
  { Plain(e1, 101), Plain(USER_FOREGROUND, 100),
    [Plain(e2, ALL_USER) EXCEPT !.uids = {10}, !.type = "system", !.rule = "OR"] }
  \cup { Package(ev, k) : ev \in {PACKAGE_ADDED, PACKAGE_CHANGED, PACKAGE_REMOVED}, k \in {a} }

\* A fresh store, and one of the first version: a legacy value and a list.
MCStores ==
  { <<>>, [sk \in {"uid"} \X {a, b} |->
             IF sk[2] = a THEN Legacy ELSE ConvertEventsToValue([e \in MCEvent |-> IF e = e1 THEN 1 ELSE 0])] }

=============================================================================
