------------------------------ MODULE MCBindings ------------------------------
(* Values for the bindings side by side.  The scripts cover every call,    *)
(* with waiting and without.                                               *)
EXTENDS Bindings

-----------------------------------------------------------------------------
(* Values of the scripts *)

Num(n) == [t |-> "number", n |-> n]
Str(n) == [t |-> "string", n |-> n]
Bool(n) == [t |-> "boolean", n |-> n]
Fn == [t |-> "function", n |-> 0]
Null == [t |-> "null", n |-> 0]
Sub(o) == [t |-> "object", n |-> o]
Obj(props) == [t |-> "object", n |-> 0, props |-> props]
Arr(elems) == [t |-> "array", n |-> 0, elems |-> elems]

Simple == Obj([events |-> Arr(<<Str(1)>>)])
Full == Obj([events |-> Arr(<<Str(1), Str(2), Str(1)>>), publisherPermission |-> Str(1), publisherDeviceId |-> Str(2),
             userId |-> Num(5), priority |-> Num(2), publisherBundleName |-> Str(4)])
NoEvents == Obj([events |-> Arr(<<>>)])
PublishData == Obj([bundleName |-> Str(1), data |-> Str(1), code |-> Num(2), subscriberPermissions |-> Arr(<<Str(2)>>),
                    isOrdered |-> Bool(1), isSticky |-> Bool(0), parameters |-> Obj(<<>>)])
LongData == Obj([data |-> Str(9), bundleName |-> Str(9)])
BadData == Obj([code |-> Str(1)])

-----------------------------------------------------------------------------
(* Calls: at once, once the earlier ones are done, once an event was heard *)

Call(api, argv) == [api |-> api, this |-> 1, argv |-> argv, await |-> TRUE, heard |-> 0]
AtOnce(c) == [c EXCEPT !.await = FALSE]
OnceHeard(c) == [c EXCEPT !.heard = 1]

Create == Call("createSubscriber", <<Simple>>)
Subscribe == Call("subscribe", <<Sub(1), Fn>>)
Unsubscribe == Call("unsubscribe", <<Sub(1), Fn>>)

\* for every binding
Scripts ==
  { <<Call("createSubscriber", <<Full, Fn>>), Call("getSubscribeInfo", <<>>), Subscribe,
      OnceHeard(Call("setCode", <<Num(2)>>)), Call("getCode", <<Fn>>), Call("finish", <<>>), Unsubscribe,
      Call("drop", <<>>)>>,
    <<Create, Subscribe, OnceHeard(Call("setData", <<Str(2), Fn>>)), Call("getData", <<>>),
      Call("abort", <<>>), Call("getAbort", <<>>), Call("finish", <<Fn>>), Call("finish", <<>>)>>,
    <<Create, Subscribe, OnceHeard(Call("setCodeAndData", <<Num(3), Str(2)>>)), Call("abort", <<Fn>>),
      Call("clearAbort", <<>>), Call("isOrdered", <<>>), Call("isSticky", <<Fn>>), Call("finish", <<>>)>>,
    <<Create, Subscribe, OnceHeard(AtOnce(Call("setCode", <<Num(2)>>))), AtOnce(Call("finish", <<>>)),
      AtOnce(Call("finish", <<Fn>>))>>,
    <<Create, Subscribe, AtOnce(Unsubscribe)>>,
    <<Create, Subscribe, Call("unsubscribe", <<Sub(1)>>), AtOnce(Subscribe), Unsubscribe>>,
    <<Create, Subscribe, Unsubscribe, Subscribe, Call("drop", <<>>)>>,
    <<AtOnce(Call("publish", <<Str(1), PublishData, Fn>>)), AtOnce(Call("publishAsUser", <<Str(2), Num(4), PublishData, Fn>>)),
      AtOnce(Call("publish", <<Str(9), Fn>>)), AtOnce(Call("publishAsUser", <<Str(1), Num(7), LongData, Fn>>))>> }

\* arguments of the wrong types, which a static script cannot give
IllTyped ==
  { <<Call("createSubscriber", <<NoEvents>>), Subscribe, Unsubscribe, Call("setCode", <<Num(1)>>), Call("getCode", <<>>),
      Call("drop", <<>>), Call("publish", <<Str(1), BadData, Fn>>), Call("publishAsUser", <<Str(1), Str(1), Fn>>),
      Call("createSubscriber", <<Num(1)>>)>> }
NewIllTyped ==
  { <<Call("createSubscriberSync", <<NoEvents>>), Call("subscribeToEvent", <<Sub(1), Fn>>), Call("removeSticky", <<Fn>>),
      Call("setStaticSubscriberState", <<Num(1)>>), Call("getCodeSync", <<>>), Call("setCodeSync", <<Num(1)>>)>> }

\* three calls about one subscription under way at a time
Racing == { <<Create, Subscribe, Call("unsubscribe", <<Sub(1)>>), AtOnce(Subscribe), AtOnce(Unsubscribe)>> }

\* the calls that the older binding does not have
NewScripts ==
  { <<Call("createSubscriberSync", <<Full>>), Call("getSubscribeInfoSync", <<>>), Call("subscribeToEvent", <<Sub(1), Fn>>),
      OnceHeard(Call("setCodeSync", <<Num(2)>>)), Call("getCodeSync", <<>>), Call("finish", <<>>),
      Call("unsubscribe", <<Sub(1), Null>>), Call("subscribeToEvent", <<Sub(1), Fn>>), Call("drop", <<>>)>>,
    <<Call("createSubscriberSync", <<Simple>>), Subscribe, OnceHeard(Call("setCodeAndDataSync", <<Num(2), Str(2)>>)),
      Call("getDataSync", <<>>), Call("abortSync", <<>>), Call("getAbortSync", <<>>), Call("finish", <<>>)>>,
    <<Call("createSubscriberSync", <<Simple>>), Call("subscribeToEvent", <<Sub(1), Fn>>),
      OnceHeard(Call("setDataSync", <<Str(9)>>)), Call("abortSync", <<>>), Call("clearAbortSync", <<>>),
      Call("isOrderedSync", <<>>), Call("isStickySync", <<>>), Call("finish", <<>>)>>,
    <<AtOnce(Call("removeSticky", <<Str(1)>>)), AtOnce(Call("setStaticSubscriberState", <<Bool(1)>>)),
      AtOnce(Call("setStaticSubscriberState", <<Bool(0), Arr(<<Str(1)>>)>>)), AtOnce(Call("removeSticky", <<Str(9), Fn>>))>> }

\* native programs: strings come with a length, infos may be null
Cut == Obj([bundleName |-> Str(9), data |-> Str(5), length |-> Num(3), code |-> Num(2), isOrdered |-> Bool(1),
            subscriberPermissions |-> Arr(<<Null, Str(2)>>), parameters |-> Obj(<<>>)])
Whole == Obj([Cut.props EXCEPT !.bundleName = Str(4), !.data = Str(3), !.length = Num(9)])
Sparse == Obj([events |-> Arr(<<Str(1), Null, Str(0), Str(2), Str(1)>>), publisherPermission |-> Null,
               publisherBundleName |-> Str(9)])
NativeScripts ==
  { <<Call("createSubscriber", <<Sparse, Fn>>), Subscribe, OnceHeard(Call("setCode", <<Num(2)>>)), Call("getCode", <<>>),
      Call("abort", <<>>), Call("finish", <<>>), Unsubscribe, Call("finish", <<>>), Call("drop", <<>>)>>,
    <<Create, Subscribe, OnceHeard(Call("setData", <<Str(9), Num(2)>>)), Call("setData", <<Null, Num(2)>>), Call("getData", <<>>),
      Call("abort", <<>>), Call("clearAbort", <<>>), Call("getAbort", <<>>), Call("isOrdered", <<>>), Call("finish", <<>>)>>,
    <<Create, Subscribe, OnceHeard(AtOnce(Call("finish", <<>>))), AtOnce(Call("finish", <<>>))>>,
    <<Create, Subscribe, Call("drop", <<>>), Call("publish", <<Str(9), Cut>>), Call("publish", <<Str(2), Whole>>)>>,
    <<Create, Subscribe, Unsubscribe, AtOnce(Subscribe), AtOnce(Unsubscribe)>>,
    <<Call("createSubscriber", <<NoEvents, Fn>>), Call("subscribe", <<Null>>), Call("unsubscribe", <<Null>>),
      AtOnce(Call("publish", <<Str(1)>>)), AtOnce(Call("publish", <<Null>>)), AtOnce(Call("publish", <<Str(1), Null>>))>> }

\* Cangjie programs: infos are objects with a number, parameters come with their types
Info(id, props) == [t |-> "object", n |-> id, props |-> props]
Integer(n) == [t |-> "int", n |-> n]
File(fd) == [t |-> "object", n |-> 0, fd |-> fd]
CjCreate == Call("createSubscriber", <<Info(1, Full.props)>>)
CjPublishData == Obj([PublishData.props EXCEPT !.parameters = Arr(<<Integer(1), File(TRUE), Arr(<<Integer(1), Integer(2)>>)>>)])
CangjieScripts ==
  { <<CjCreate, Call("getSubscribeInfo", <<>>), Subscribe, OnceHeard(Call("setCode", <<Num(2)>>)), Call("getCode", <<>>),
      Call("abort", <<>>), Call("finish", <<>>), Unsubscribe, Call("abort", <<>>), Call("getAbort", <<>>), Call("drop", <<>>)>>,
    <<Call("createSubscriberSync", <<Simple>>), Subscribe, OnceHeard(Call("setData", <<Str(9)>>)), Call("getData", <<>>),
      Call("setCodeAndData", <<Num(3), Str(2)>>), Call("clearAbort", <<>>), Call("isOrdered", <<>>), Call("isSticky", <<>>),
      Call("finish", <<>>)>>,
    <<CjCreate, Subscribe, OnceHeard(AtOnce(Call("finish", <<>>))), AtOnce(Call("finish", <<>>))>>,
    <<CjCreate, Subscribe, CjCreate, Subscribe, Unsubscribe>>,
    <<CjCreate, Subscribe, AtOnce(Unsubscribe)>>,
    <<CjCreate, Subscribe, Unsubscribe, AtOnce(Subscribe), Unsubscribe>>,
    <<Call("createSubscriber", <<Info(0, Simple.props)>>), Subscribe, Unsubscribe, Call("setCode", <<Num(1)>>),
      AtOnce(Call("publishAsUser", <<Str(9), Num(4)>>)), AtOnce(Call("publishAsUser", <<Str(2), Num(7), CjPublishData>>)),
      AtOnce(Call("removeSticky", <<Str(1)>>)), AtOnce(Call("setStaticSubscriberState", <<Bool(1)>>))>> }

\* parameters that can be converted, and two kinds that cannot
EventParameters == {<<Integer(1), File(TRUE)>>, <<File(FALSE)>>, <<Arr(<<>>)>>}

MCScripts ==
  [b \in Binding |->
     CASE b = "new" -> Scripts \cup Racing \cup NewScripts \cup IllTyped \cup NewIllTyped
       [] b = "legacy" -> Scripts \cup IllTyped
       [] b = "static" -> Scripts \cup NewScripts
       [] b = "cangjie" -> CangjieScripts
       [] OTHER -> NativeScripts]

EventKinds == {[ordered |-> TRUE, sticky |-> FALSE], [ordered |-> FALSE, sticky |-> TRUE]}

=============================================================================
