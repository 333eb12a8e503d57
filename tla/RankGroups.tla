------------------------------- MODULE RankGroups -------------------------------
(* src/src/shared/rank/domain/RankGroupResolution.ts: the format groups a ban   *)
(* list feeds.  A list belongs to the groups with a member that matches its     *)
(* canonical name; an onlyCurrent group takes it while its date is not after    *)
(* today and not before the newest matching list of the server that lags most.  *)
(* A group is [name, enabled, onlyCurrent, members], its members being the      *)
(* names its patterns match; a date is a number, 0 for a name without one.      *)
EXTENDS Integers, Sequences, FiniteSets, FiniteSetsExt

CONSTANTS
  Aliases,       \* renamed header -> the name its history lives under
  DateOf,        \* name -> date
  GroupDefs      \* the configured groups

(* Names that are ranks of their own and never feed a group.                    *)
NonGroupable == {"N/A", "Global"}

resolveAlias(name) == IF name \in DOMAIN Aliases THEN Aliases[name] ELSE name

matchesGroup(name, group) == name \in group.members

(* maxCurrentDatedKey, as a set that is empty without such a list.              *)
NewestOf(group, names, today) ==
  LET dates == {DateOf[n] : n \in {m \in names : matchesGroup(m, group)}} \cap 1..today
  IN {d \in dates : \A e \in dates : e <= d}

(* currencyFloorKey: the oldest of the servers' newest; a server without a      *)
(* dated match does not lag.                                                    *)
FloorOf(group, servers, today) ==
  LET newest == UNION {NewestOf(group, servers[s], today) : s \in DOMAIN servers}
  IN {d \in newest : \A e \in newest : d <= e}

isCurrent(name, group, servers, today) ==
  \/ DateOf[name] = 0
  \/ DateOf[name] <= today /\ \A floor \in FloorOf(group, servers, today) : floor <= DateOf[name]

(* resolveGroupsFor, of a canonical name.                                       *)
resolveGroupsFor(name, servers, today) ==
  IF name = "" \/ name \in NonGroupable THEN {}
  ELSE {group.name : group \in {g \in GroupDefs :
         /\ g.enabled /\ matchesGroup(name, g)
         /\ g.onlyCurrent => isCurrent(name, g, servers, today)}}

(* currentListsFor: the loaded lists that feed the group now, for display.      *)
currentListsFor(group, servers, today) ==
  {n \in UNION {servers[s] : s \in DOMAIN servers} : matchesGroup(n, group) /\ n \notin NonGroupable /\
    (DateOf[n] = 0 \/ \E floor \in FloorOf(group, servers, today) : DateOf[n] \in floor..today)}

(* RankGroupResolver.groupsFor: the loaded names compete under their canonical  *)
(* names.                                                                       *)
groupsFor(name, loadedNames, today) ==
  resolveGroupsFor(name, [s \in DOMAIN loadedNames |-> {resolveAlias(n) : n \in loadedNames[s]}], today)
================================================================================
