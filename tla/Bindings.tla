------------------------------- MODULE Bindings -------------------------------
(***************************************************************************)
(* The bindings side by side: a behaviour runs one script on one of the    *)
(* five, with the client library's listener beside it.                     *)
(***************************************************************************)
EXTENDS ScriptBinding

CONSTANTS
  SUBSCRIBE_EVENT_MAX_NUM,  \* the events a subscriber of the older binding may name
  SCRIPTS                   \* the scripts that may run, for each of the bindings

Binding == {"new", "legacy", "static", "cangjie", "native"}
SubscribeCalls == {"subscribe", "subscribeToEvent"}

\* Scripts are sequences of calls, and one that subscribes names one of the subscribers, or
\* nothing where the language lets it: a static script and a Cangjie program have typed handles.
NamesSubscriber(b, argv) ==
  /\ Len(argv) >= 1
  /\ argv[1].n \in Object \/ (b \in {"new", "legacy", "native"} /\ Is(argv[1], "null"))
ASSUME ScriptsAssumption ==
  \A b \in Binding : \A s \in SCRIPTS[b] :
    /\ s \in Seq({s[i] : i \in DOMAIN s})
    /\ \A i \in DOMAIN s : s[i].api \in SubscribeCalls => NamesSubscriber(b, s[i].argv)

New == INSTANCE NapiCommonEvent
Legacy == INSTANCE NapiCommonEventLegacy
Static == INSTANCE AniCommonEvent
Cangjie == INSTANCE CjCommonEvent
Native == INSTANCE OhCommonEvent

-----------------------------------------------------------------------------
Init ==
  /\ SBInit
  /\ binding \in Binding
  /\ script \in SCRIPTS[binding]

Next ==
  \/ binding = "new" /\ New!NewNext
  \/ binding = "legacy" /\ Legacy!LegacyNext
  \/ binding = "static" /\ Static!StaticNext
  \/ binding = "cangjie" /\ Cangjie!CangjieNext
  \/ binding = "native" /\ Native!NativeNext
  \/ Deliver
  \/ EndReceive
  \/ EnvExit

Spec == Init /\ [][Next]_sbVars

=============================================================================
