--------------------------- MODULE MCPublication ---------------------------
(***************************************************************************)
(* Instance of Publication: a system application, a subsystem, an ordinary *)
(* application in two accounts, and requests that differ in what the       *)
(* checks look at.                                                         *)
(***************************************************************************)
EXTENDS Publication

StickyPermission == "ohos.permission.COMMONEVENT_STICKY"

Base == [uid |-> 1, bundleName |-> "sys", account |-> 100, native |-> FALSE, shell |-> FALSE,
         systemApp |-> FALSE, dlp |-> FALSE, granted |-> {}, apiVersion |-> 12]
SystemApp == [Base EXCEPT !.systemApp = TRUE, !.granted = {StickyPermission}]
Subsystem == [Base EXCEPT !.uid = 2, !.bundleName = "", !.account = 0, !.native = TRUE,
                          !.apiVersion = NoVersion]
App == [Base EXCEPT !.uid = 3, !.bundleName = "app", !.granted = {"p"}]
OtherApp == [Base EXCEPT !.uid = 4, !.bundleName = "other", !.account = 101]

MCCaller == {SystemApp, Subsystem, App, OtherApp}
MCOwner == [l \in {"la", "lo", "ls"} |->
              CASE l = "la" -> App [] l = "lo" -> OtherApp [] OTHER -> SystemApp]

NoInfo == [ordered |-> FALSE, sticky |-> FALSE, bundleName |-> "", permissions |-> {},
           type |-> NoType, uids |-> {}, rule |-> "AND", maximumVersion |-> NoVersion]
Plain == [want |-> [action |-> "e", entities |-> {}, scheme |-> ""], info |-> NoInfo,
          userId |-> UNDEFINED_USER, isProxy |-> FALSE, hasListener |-> FALSE]
Sticky == [Plain EXCEPT !.info.sticky = TRUE]

MCPublishRequest ==
  {Plain,
   [Plain EXCEPT !.userId = ALL_USER, !.info.bundleName = "app"],
   [Plain EXCEPT !.isProxy = TRUE, !.userId = UNDEFINED_USER],
   [Plain EXCEPT !.userId = 101, !.want.action = "f"],
   Sticky,
   [Sticky EXCEPT !.userId = CURRENT_USER, !.want.action = "f", !.info.ordered = TRUE,
                  !.info.permissions = {"p"}]}

AllEvents == [events |-> {"e", "f"}, entities |-> {}, schemes |-> {}, publisherBundleName |-> "",
              publisherUid |-> 0, permission |-> ""]
MCSubscribeRequest ==
  {[info |-> AllEvents, userId |-> UNDEFINED_USER],
   [info |-> [AllEvents EXCEPT !.events = {"e"}, !.publisherBundleName = "sys"],
    userId |-> ALL_USER]}

NoPermissions == [e \in {"g"} |-> [state |-> "OR", names |-> {"p", "q"}]]
MCPublishControl == [e \in {"f"} |-> {1, 2, 4}]
=============================================================================
