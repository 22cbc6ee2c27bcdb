------------------------------ MODULE Matching ------------------------------
(***************************************************************************)
(* The decisions of the Common Event Service that read no state of it:     *)
(* who a caller is, for which user a request is, and which subscriber an   *)
(* event matches (CommonEventSubscriberManager, MatchingSkills,            *)
(* CommonEventPublishInfo, InnerCommonEventManager).                       *)
(*                                                                         *)
(* A caller is a record                                                    *)
(*   [uid, bundleName, account, native, shell, systemApp, dlp, granted,    *)
(*    apiVersion]                                                          *)
(* of what the access token, the bundle manager and the account manager    *)
(* say of it; "" is an empty name and NoVersion an unknown target version. *)
(***************************************************************************)
EXTENDS Integers, FiniteSets

CONSTANTS
  EventPermission,    \* COMMON_EVENT_MAP: an event's permissions and their rule
  SystemEvents,       \* what CommonEventSupport::IsSystemEvent accepts
  SystemAPIEvents,    \* SYSTEM_API_COMMON_EVENTS
  PublishControl,     \* publishControlMap_: an event's allowed publisher uids
  CheckSaPermission   \* notification.ces.check.sa.permission

ALL_USER == -1
CURRENT_USER == -2
UNDEFINED_USER == -3
SystemUsers == 0..99
NoVersion == -1
NoType == -1

(***************************************************************************)
(* Identity and user of a request                                          *)
(***************************************************************************)

ComeFrom(c, isProxy) ==
  LET looked == ~c.native \/ CheckSaPermission
  IN [isSubsystem |-> c.native,
      isCemShell  |-> looked /\ c.shell,
      isSystemApp |-> looked /\ ~c.shell /\ c.systemApp,
      isProxy     |-> isProxy]

Privileged(from) ==
  (from.isSystemApp \/ from.isSubsystem \/ from.isCemShell) /\ ~from.isProxy

SystemUserId(c, from, userId) ==
  CASE userId = CURRENT_USER -> c.account
    [] userId = UNDEFINED_USER ->
         IF from.isSubsystem \/ c.account \in SystemUsers THEN ALL_USER ELSE c.account
    [] OTHER -> userId

\* CheckUserId accepts the request ...
UserIdAllowed(c, isProxy, userId) ==
  /\ userId >= UNDEFINED_USER
  /\ Privileged(ComeFrom(c, isProxy)) \/ userId = UNDEFINED_USER

\* ... and this is the user it resolves to.
ResolvedUserId(c, isProxy, userId) ==
  LET from == ComeFrom(c, isProxy)
  IN IF Privileged(from) THEN SystemUserId(c, from, userId) ELSE c.account

\* A special user is named by system applications and subsystems only.
MayNameUser(c, userId) ==
  userId \in {ALL_USER, CURRENT_USER, UNDEFINED_USER} \/ c.native \/ c.systemApp

IsPublishAllowed(event, c) ==
  event \in DOMAIN PublishControl => c.uid \in PublishControl[event]

SystemEventAllowed(event, from) ==
  event \in SystemEvents => from.isSystemApp \/ from.isSubsystem

MayPublishSticky(c, from) ==
  \/ "ohos.permission.COMMONEVENT_STICKY" \in c.granted
     /\ (from.isSystemApp \/ from.isCemShell)
  \/ ~from.isProxy /\ from.isSubsystem

MayRemoveSticky(c) ==
  /\ c.native \/ c.systemApp
  /\ \/ "ohos.permission.COMMONEVENT_STICKY" \in c.granted
     \/ c.native /\ ~CheckSaPermission

(***************************************************************************)
(* Matching.  A subscriber record is [caller, from, userId, info] with     *)
(* info = [events, entities, schemes, publisherBundleName, publisherUid,   *)
(* permission]; an event is [caller, from, userId, want, info] with want = *)
(* [action, entities, scheme] and info = [ordered, sticky, bundleName,     *)
(* permissions, type, uids, rule, maximumVersion].                         *)
(***************************************************************************)

MatchEntity(skills, entities) == entities \subseteq skills.entities

MatchScheme(skills, scheme) ==
  IF skills.schemes # {} THEN scheme \in skills.schemes ELSE scheme = ""

Match(skills, want) ==
  /\ want.action # "" /\ want.action \in skills.events
  /\ MatchEntity(skills, want.entities)
  /\ MatchScheme(skills, want.scheme)

\* Mutant: what a system application publishes is for every user.
CheckUserIdOrSystem(subscriberUserId, isSystemApp, userId) ==
  subscriberUserId \in {ALL_USER, userId} \/ isSystemApp

CheckSubscriberByUserId(subscriberUserId, isSystemApp, userId) ==
  \/ subscriberUserId \in {ALL_USER, userId}
  \/ isSystemApp /\ (userId \in {UNDEFINED_USER, ALL_USER} \/ subscriberUserId \in SystemUsers)

GetEventPermission(event) ==
  IF event \in DOMAIN EventPermission THEN EventPermission[event]
  ELSE [state |-> "DEFAULT", names |-> {}]

CheckSubscriberPermission(s, e) ==
  LET event == e.want.action
      required == GetEventPermission(event)
  IN /\ event \in SystemAPIEvents => s.from.isSubsystem \/ s.from.isSystemApp
     /\ \/ s.caller.uid = e.caller.uid
        \/ required.state = "OR" /\ required.names \intersect s.caller.granted # {}
        \/ required.names \subseteq s.caller.granted

CheckWhetherIsAppIndexSubscribed(s, e) ==
  (s.caller.bundleName # "" /\ s.caller.bundleName = e.caller.bundleName)
    => s.caller.uid = e.caller.uid

CheckSubscriberRequiredPermission(s, e) ==
  \/ s.caller.uid = e.caller.uid
  \/ s.info.permission = ""
  \/ s.info.permission \in e.caller.granted

CheckPublisherWhetherMatched(s, e) ==
  /\ s.info.publisherBundleName \in {"", e.caller.bundleName}
  /\ (s.info.publisherUid > 0 /\ e.caller.uid > 0) => s.info.publisherUid = e.caller.uid
  /\ CheckSubscriberRequiredPermission(s, e)

CheckPublisherRequiredPermissions(s, e) ==
  s.caller.uid = e.caller.uid \/ e.info.permissions \subseteq s.caller.granted

CheckSubscriberBySpecifiedType(type, isSystemApp) ==
  type = 0 \/ (type = 1 /\ isSystemApp)

CheckSubscriberByMaximumVersion(s, e) ==
  /\ e.info.maximumVersion # NoVersion
  /\ s.caller.apiVersion = NoVersion \/ s.caller.apiVersion % 1000 <= e.info.maximumVersion

\* The filters a publisher has set, by name instead of by bit.
GetFilterSettings(info) ==
  {f \in {"type", "bundle", "permission", "uid", "version"} :
     \/ f = "type" /\ info.type # NoType
     \/ f = "bundle" /\ info.bundleName # ""
     \/ f = "permission" /\ info.permissions # {}
     \/ f = "uid" /\ info.uids # {}
     \/ f = "version" /\ info.maximumVersion # NoVersion}

FiltersPassed(s, e) ==
  {f \in {"type", "bundle", "permission", "uid", "version"} :
     \/ /\ f = "type" /\ e.info.type # NoType
        /\ CheckSubscriberBySpecifiedType(e.info.type, s.from.isSystemApp \/ s.from.isSubsystem)
     \/ f = "bundle" /\ e.info.bundleName # "" /\ e.info.bundleName = s.caller.bundleName
     \/ f = "permission" /\ e.info.permissions # {} /\ CheckPublisherRequiredPermissions(s, e)
     \/ f = "uid" /\ s.caller.uid \in e.info.uids
     \/ f = "version" /\ CheckSubscriberByMaximumVersion(s, e)}

CheckSubscriberWhetherMatched(s, e) ==
  LET set == GetFilterSettings(e.info)
      passed == FiltersPassed(s, e)
  IN \/ set = {}
     \/ IF e.info.rule = "AND" THEN passed = set ELSE passed \intersect set # {}

\* GetSubscriberRecordsByWantLocked: the subscriber gets the event.
Matches(s, e) ==
  /\ Match(s.info, e.want)
  /\ CheckSubscriberByUserId(s.userId,
       (e.from.isSystemApp \/ e.from.isCemShell \/ e.from.isSubsystem) /\ ~e.from.isProxy, e.userId)
  /\ CheckSubscriberPermission(s, e)
  /\ CheckWhetherIsAppIndexSubscribed(s, e)
  /\ CheckPublisherWhetherMatched(s, e)
  /\ CheckSubscriberWhetherMatched(s, e)

=============================================================================
