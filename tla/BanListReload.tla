----------------------------- MODULE BanListReload -----------------------------
(* The ban lists in memory and the resource releases on disk: boot loads the    *)
(* EDOPro lists, then the YGOPro lists, then takes the fingerprint the reloader *)
(* (src/src/bootstrap/bootstrapBanListReloader.ts) compares with on each tick.  *)
(* A sidecar publishes a release by one rename (scripts/setup_resources.sh), at *)
(* any moment, between any two of these reads.                                  *)
(*                                                                              *)
(* Of a release the model keeps the versions of three parts: "edo", "formats"   *)
(* (ygopro/formats) and "base" (ygopro/base/lflist.conf).  The version of a     *)
(* part stands for its lists' hashes; their names stay.  The fingerprint covers *)
(* the first two.                                                               *)
EXTENDS Naturals, FiniteSets

CONSTANTS
  Ticks,         \* timer callbacks that may be in flight at once
  BanRooms,      \* rooms
  MaxVersion,    \* bound: versions of one part
  MaxFailures    \* bound: rebuilds that throw or come out empty

VARIABLES
  disk,          \* part -> published version
  boot,          \* what boot does next
  edoLists,      \* version of the EDOPro catalog; 0 is empty
  ygoLists,      \* [formats, base] of the YGOPro catalog
  lastFingerprint,
  running,       \* the overlap guard
  tick,          \* timer callback -> its progress and what it has read
  failures,
  banRoom,       \* room -> NoBanRoom or its ban list: [part, hash, edoHash, name]
  missed         \* history: the disk changed between boot's loads and its baseline

reloadVars == <<disk, boot, edoLists, ygoLists, lastFingerprint, running, tick, failures, banRoom, missed>>

Fingerprint == <<disk.edo, disk.formats>>
YgoOnDisk == [formats |-> disk.formats, base |-> disk.base]
Nothing == [formats |-> 0, base |-> 0]
Asleep == [at |-> "asleep", seen |-> <<0, 0>>, edo |-> 0, ygo |-> Nothing]
NoBanRoom == [part |-> "none", hash |-> 0, edoHash |-> 0, name |-> "unsettled"]

ReloadInit ==
  /\ disk = [edo |-> 1, formats |-> 1, base |-> 1]
  /\ boot = "edo"
  /\ edoLists = 0 /\ ygoLists = Nothing
  /\ lastFingerprint = <<0, 0>> /\ running = FALSE
  /\ tick = [t \in Ticks |-> Asleep]
  /\ failures = 0 /\ missed = FALSE
  /\ banRoom = [r \in BanRooms |-> NoBanRoom]

(* The sidecar publishes a release in which some parts are new.                 *)
Publish ==
  \E parts \in (SUBSET DOMAIN disk) \ {{}} :
    /\ \A part \in parts : disk[part] < MaxVersion
    /\ disk' = [part \in DOMAIN disk |-> IF part \in parts THEN disk[part] + 1 ELSE disk[part]]
    /\ missed' = (missed \/ (boot \in {"ygo", "baseline"} /\ parts # {"base"}))
    /\ UNCHANGED <<boot, edoLists, ygoLists, lastFingerprint, running, tick, failures, banRoom>>

(* bootstrapEdoproResources                                                     *)
BootEdo ==
  /\ boot = "edo" /\ boot' = "ygo" /\ edoLists' = disk.edo
  /\ UNCHANGED <<disk, ygoLists, lastFingerprint, running, tick, failures, banRoom, missed>>

(* bootstrapYgoproResources                                                     *)
BootYgo ==
  /\ boot = "ygo" /\ boot' = "baseline" /\ ygoLists' = YgoOnDisk
  /\ UNCHANGED <<disk, edoLists, lastFingerprint, running, tick, failures, banRoom, missed>>

(* bootstrapBanListReloader: the baseline is what is on disk now, and that is   *)
(* taken to be what boot loaded.                                                *)
Baseline ==
  /\ boot = "baseline" /\ boot' = "done" /\ lastFingerprint' = Fingerprint
  /\ UNCHANGED <<disk, edoLists, ygoLists, running, tick, failures, banRoom, missed>>

(* Mutant of TickStarts: a slow cycle is overtaken by the next one.             *)
TickStarts_NoGuard(t) ==
  /\ boot = "done" /\ tick[t].at = "asleep"
  /\ running' = TRUE
  /\ tick' = [tick EXCEPT ![t] = [@ EXCEPT !.at = "compare", !.seen = <<disk.edo, 0>>]]
  /\ UNCHANGED <<disk, boot, edoLists, ygoLists, lastFingerprint, failures, banRoom, missed>>

TickStarts(t) ==
  /\ boot = "done" /\ tick[t].at = "asleep" /\ ~running
  /\ running' = TRUE
  /\ tick' = [tick EXCEPT ![t] = [@ EXCEPT !.at = "compare", !.seen = <<disk.edo, 0>>]]
  /\ UNCHANGED <<disk, boot, edoLists, ygoLists, lastFingerprint, failures, banRoom, missed>>

(* fingerprintLflists walks its directories one by one, so a release may be     *)
(* published halfway; reloadBanListsOnce then compares what it found with the   *)
(* last fingerprint it adopted.                                                 *)
Compare(t) ==
  /\ tick[t].at = "compare"
  /\ LET fingerprint == <<tick[t].seen[1], disk.formats>>
     IN IF fingerprint = lastFingerprint
        THEN tick' = [tick EXCEPT ![t] = Asleep] /\ running' = FALSE
        ELSE tick' = [tick EXCEPT ![t] = [@ EXCEPT !.at = "edo", !.seen = fingerprint]] /\ UNCHANGED running
  /\ UNCHANGED <<disk, boot, edoLists, ygoLists, lastFingerprint, failures, banRoom, missed>>

LoadEdo(t) ==
  /\ tick[t].at = "edo"
  /\ tick' = [tick EXCEPT ![t] = [@ EXCEPT !.at = "ygo", !.edo = disk.edo]]
  /\ UNCHANGED <<disk, boot, edoLists, ygoLists, lastFingerprint, running, failures, banRoom, missed>>

LoadYgo(t) ==
  /\ tick[t].at = "ygo"
  /\ tick' = [tick EXCEPT ![t] = [@ EXCEPT !.at = "swap", !.ygo = YgoOnDisk]]
  /\ UNCHANGED <<disk, boot, edoLists, ygoLists, lastFingerprint, running, failures, banRoom, missed>>

(* Both catalogs are replaced with no await between the two.                    *)
Swap(t) ==
  /\ tick[t].at = "swap"
  /\ edoLists' = tick[t].edo /\ ygoLists' = tick[t].ygo
  /\ lastFingerprint' = tick[t].seen /\ running' = FALSE
  /\ tick' = [tick EXCEPT ![t] = Asleep]
  /\ UNCHANGED <<disk, boot, failures, banRoom, missed>>

(* A load throws, or one of the two comes out empty: the lists and the last     *)
(* fingerprint stay, so that the next cycle tries again.                        *)
RebuildFails(t) ==
  /\ tick[t].at \in {"edo", "ygo"} /\ failures < MaxFailures
  /\ failures' = failures + 1 /\ running' = FALSE
  /\ tick' = [tick EXCEPT ![t] = Asleep]
  /\ UNCHANGED <<disk, boot, edoLists, ygoLists, lastFingerprint, banRoom, missed>>

(* YGOProRoom: the hash of its list, and that of the EDOPro list of its name.   *)
OpenBanRoom(r) ==
  /\ boot = "done" /\ banRoom[r] = NoBanRoom
  /\ \E part \in {"formats", "base"} :
       banRoom' = [banRoom EXCEPT ![r] = [part |-> part, hash |-> ygoLists[part], edoHash |-> edoLists, name |-> "unsettled"]]
  /\ UNCHANGED <<disk, boot, edoLists, ygoLists, lastFingerprint, running, tick, failures, missed>>

(* GAME_OVER carries room.banListName, looked up by hash at that moment.        *)
SettleBanRoom(r) ==
  /\ banRoom[r] # NoBanRoom /\ banRoom[r].name = "unsettled"
  /\ banRoom' = [banRoom EXCEPT ![r].name = IF ygoLists[banRoom[r].part] = banRoom[r].hash THEN banRoom[r].part ELSE "N/A"]
  /\ UNCHANGED <<disk, boot, edoLists, ygoLists, lastFingerprint, running, tick, failures, missed>>

Tick(t) == Compare(t) \/ LoadEdo(t) \/ LoadYgo(t) \/ Swap(t)

ReloadNext ==
  \/ Publish \/ BootEdo \/ BootYgo \/ Baseline
  \/ \E t \in Ticks : TickStarts(t) \/ Compare(t) \/ LoadEdo(t) \/ LoadYgo(t) \/ Swap(t) \/ RebuildFails(t)
  \/ \E r \in BanRooms : OpenBanRoom(r) \/ SettleBanRoom(r)

(* Boot runs on, the interval keeps firing and a started cycle's reads return.  *)
ReloadFair ==
  /\ WF_reloadVars(BootEdo) /\ WF_reloadVars(BootYgo) /\ WF_reloadVars(Baseline)
  /\ WF_reloadVars(\E t \in Ticks : TickStarts(t))
  /\ \A t \in Ticks : WF_reloadVars(Tick(t))

--------------------------------------------------------------------------------
(* Once boot has loaded them, neither catalog is ever empty, whatever a rebuild *)
(* produces: a room created meanwhile would have no ban list.                   *)
NeverEmpty == boot \in {"baseline", "done"} =>
  edoLists > 0 /\ ygoLists.formats > 0 /\ ygoLists.base > 0

(* Releases are published in order and no cycle puts an older list back over a  *)
(* newer one, however long its reads took.                                      *)
ListsNeverGoBack ==
  [][edoLists' >= edoLists /\ \A part \in DOMAIN ygoLists : ygoLists'[part] >= ygoLists[part]]_reloadVars

(* After boot, every change to the watched lists reaches both catalogs, also    *)
(* one published in the middle of a cycle or while rebuilds fail, except one    *)
(* between boot's reads and the baseline, which is never noticed by itself.     *)
WatchedListsCatchUp ==
  <>[](\/ missed \/ boot # "done"
       \/ edoLists = disk.edo /\ ygoLists.formats = disk.formats)

(* A room keeps its list's hash, not the list.  Once a reload replaced the list   *)
(* the hash names nothing and the match is credited to none ("N/A"), although    *)
(* bootstrapBanListReloader.ts:15 says that rooms in flight snapshot their list. *)
(* What does hold is that nothing else loses it.                                 *)
LostOnlyByReload ==
  \A r \in BanRooms : banRoom[r].name = "N/A" => ygoLists[banRoom[r].part] > banRoom[r].hash

(* The catalogs are never lost, neither to an empty rebuild nor to an older      *)
(* reading by a cycle that another one overtook; and a room misses its own list  *)
(* only where a newer one took its place.                                        *)
ListsNeverLost == []NeverEmpty /\ []LostOnlyByReload /\ ListsNeverGoBack
================================================================================
