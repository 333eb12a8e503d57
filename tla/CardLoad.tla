-------------------------------- MODULE CardLoad --------------------------------
(* How a pool's cards get from the manifest into the table a duel reads:        *)
(* ResourcePoolResolver.ts and PoolSelection.ts give the directories in search  *)
(* order, card-load-worker.ts collects their databases' rows, first one of a    *)
(* code wins, and card-storage.ts hashes them into an open-addressing table     *)
(* (all under src/src/ygopro/ygopro/).  A row is [code, dir]: what it says is   *)
(* told apart by the directory it comes from.                                   *)
EXTENDS Naturals, Sequences, FiniteSets, SequencesExt

CONSTANTS
  Manifests,     \* [standard, extended, pools], a missing part is Absent
  Absent,
  Disks,         \* directory -> codes of its database, in order, and where it breaks
  RoomPools,     \* pool names rooms ask for
  CardCodes,     \* codes a duel asks for
  MaxCode,       \* CARD_ID_MAX
  MinCapacity,   \* HASH_MIN_CAPACITY, a power of two
  Multiplier     \* of the hash, odd

VARIABLES
  manifest, files, wanted,   \* the release, and the pool being loaded
  dirs,                      \* directories still to search
  cards,                     \* rows collected
  stored,                    \* rows in the table's entries
  hashKeys, hashValues       \* slot -> code, slot -> entry; 0 is empty

loadVars == <<manifest, files, wanted, dirs, cards, stored, hashKeys, hashValues>>

--------------------------------------------------------------------------------
(* Directories.  toAbsoluteLeaves drops empty leaves.                           *)
Leaves(part) == IF part = Absent THEN <<>> ELSE SelectSeq(part, LAMBDA leaf : leaf # "")

Standard(m) == Leaves(m.standard)

(* deriveNamedPools: a malformed entry is skipped, the others stay.             *)
NamedOf(m) ==
  [name \in {n \in DOMAIN m.pools : m.pools[n] # Absent} |->
     [scripts |-> Leaves(m.pools[name].scripts), cards |-> Leaves(m.pools[name].cards)]]

(* Directories of the named pools, in the manifest's order.                     *)
NamedDirs(m) ==
  FlattenSeq([i \in DOMAIN m.order |->
    IF m.order[i] \in DOMAIN NamedOf(m)
    THEN NamedOf(m)[m.order[i]].cards \o NamedOf(m)[m.order[i]].scripts ELSE <<>>])

(* lflistScanPaths: where ban lists are looked for; their indices count in this *)
(* order.                                                                       *)
lflistScanPaths(m) ==
  FoldLeft(LAMBDA paths, dir : IF Contains(paths, dir) THEN paths ELSE Append(paths, dir),
           Standard(m), NamedDirs(m))

extendedSearchOrder(m) ==
  SelectSeq(Leaves(m.extended), LAMBDA dir : ~Contains(Standard(m), dir)) \o Standard(m)

(* selectPoolPaths(...).cards: an unknown name is the standard pool.            *)
PoolCards(m, name) ==
  CASE name = "extended" -> extendedSearchOrder(m)
    [] name \in DOMAIN NamedOf(m) -> NamedOf(m)[name].cards
    [] OTHER -> Standard(m)

--------------------------------------------------------------------------------
(* computeHashCapacity: three quarters full at most.                            *)
Capacity(count) ==
  LET required == (4 * count + 2) \div 3
      Sizes == {MinCapacity * 2^k : k \in 0..count}
  IN CHOOSE c \in Sizes : c >= required /\ \A d \in Sizes : d >= required => c <= d

Slots == DOMAIN hashKeys
Home(code) == (code * Multiplier) % Cardinality(Slots)

(* Linear probing: the first slot from the code's own on that holds it or is    *)
(* empty.  Without one the loop of the code would not end.                      *)
Stops(code) == {k \in 0..Cardinality(Slots) - 1 :
                  hashKeys[(Home(code) + k) % Cardinality(Slots)] \in {0, code}}
Probe(code) == (Home(code) + CHOOSE k \in Stops(code) : \A j \in Stops(code) : k <= j) % Cardinality(Slots)

(* readCard                                                                     *)
ReadCard(code) ==
  IF code \notin 1..MaxCode \/ hashKeys[Probe(code)] = 0 THEN Absent
  ELSE stored[hashValues[Probe(code)]]

--------------------------------------------------------------------------------
LoadInit ==
  /\ manifest \in Manifests /\ files \in Disks /\ wanted \in RoomPools
  /\ dirs = PoolCards(manifest, wanted)
  /\ cards = <<>> /\ stored = <<>>
  /\ hashKeys = <<>> /\ hashValues = <<>>

Codes(rows) == {rows[i].code : i \in DOMAIN rows}

(* Rows of a database that are new, up to the row where reading it fails.       *)
NewRows(dir, rows) ==
  FoldLeft(LAMBDA acc, code : IF code = 0 \/ code \in Codes(acc) THEN acc
                              ELSE Append(acc, [code |-> code, dir |-> dir]),
           rows, SubSeq(files[dir].codes, 1, files[dir].readable))

(* load: the next directory of the search order.  A directory that is missing   *)
(* or holds no database adds nothing.                                           *)
ReadDatabase ==
  /\ dirs # <<>> /\ dirs' = Tail(dirs)
  /\ cards' = IF Head(dirs) \in DOMAIN files THEN NewRows(Head(dirs), cards) ELSE cards
  /\ UNCHANGED <<manifest, files, wanted, stored, hashKeys, hashValues>>

(* fromCards: codes beyond 31 bits are left out and the table is sized.         *)
Kept == SelectSeq(cards, LAMBDA row : row.code <= MaxCode)

AllocateTable ==
  /\ dirs = <<>> /\ hashKeys = <<>>
  /\ hashKeys' = [slot \in 0..Capacity(Len(Kept)) - 1 |-> 0] /\ hashValues' = hashKeys'
  /\ UNCHANGED <<manifest, files, wanted, dirs, cards, stored>>

(* Mutant of InsertHash: the slot is taken without looking who holds it.        *)
InsertHash_NoProbe ==
  /\ hashKeys # <<>> /\ Len(stored) < Len(Kept)
  /\ LET row == Kept[Len(stored) + 1]
     IN /\ stored' = Append(stored, row)
        /\ hashKeys' = [hashKeys EXCEPT ![Home(row.code)] = row.code]
        /\ hashValues' = [hashValues EXCEPT ![Home(row.code)] = Len(stored) + 1]
  /\ UNCHANGED <<manifest, files, wanted, dirs, cards>>

(* writeEntry and insertHash                                                    *)
InsertHash ==
  /\ hashKeys # <<>> /\ Len(stored) < Len(Kept)
  /\ LET row == Kept[Len(stored) + 1]
     IN /\ stored' = Append(stored, row)
        /\ hashKeys' = [hashKeys EXCEPT ![Probe(row.code)] = row.code]
        /\ hashValues' = [hashValues EXCEPT ![Probe(row.code)] = Len(stored) + 1]
  /\ UNCHANGED <<manifest, files, wanted, dirs, cards>>

LoadNext == ReadDatabase \/ AllocateTable \/ InsertHash

--------------------------------------------------------------------------------
Loaded == hashKeys # <<>> /\ Len(stored) = Len(Kept)

(* The directories that hold a row of the code, by their place in the order.    *)
HasRow(code) == {i \in DOMAIN PoolCards(manifest, wanted) :
                   LET dir == PoolCards(manifest, wanted)[i]
                   IN dir \in DOMAIN files /\ \E j \in 1..files[dir].readable : files[dir].codes[j] = code}

(* A duel reads of each card the row of the first directory of its pool that    *)
(* has one, the prereleases' before the standard one, and of a card no          *)
(* directory has nothing, through every collision in the table.                 *)
DuelReadsItsPool == Loaded =>
  \A code \in CardCodes :
    ReadCard(code) =
      IF code \in 1..MaxCode /\ HasRow(code) # {}
      THEN [code |-> code,
            dir |-> PoolCards(manifest, wanted)[CHOOSE i \in HasRow(code) : \A j \in HasRow(code) : i <= j]]
      ELSE Absent

(* A prerelease's row is the one its players see: in the extended pool no       *)
(* standard row hides a row of the delta.                                       *)
DeltaWins == (Loaded /\ wanted = "extended") =>
  \A i \in DOMAIN stored : Contains(Standard(manifest), stored[i].dir) =>
    \A j \in DOMAIN Leaves(manifest.extended) :
      LET dir == Leaves(manifest.extended)[j]
      IN (~Contains(Standard(manifest), dir) /\ dir \in DOMAIN files)
           => \A n \in 1..files[dir].readable : files[dir].codes[n] # stored[i].code

(* Looking up a card that is not there ends: the table always has a free slot.  *)
LookupEnds == hashKeys # <<>> => \E slot \in Slots : hashKeys[slot] = 0

(* The list a client names by its number is not moved by the named pools, which *)
(* search the standard directories too for their scripts: those keep their      *)
(* places at the front and every other directory is scanned once.               *)
ListIndicesHold ==
  LET paths == lflistScanPaths(manifest)
  IN /\ IsPrefix(Standard(manifest), paths)
     /\ \A i \in DOMAIN paths : i > Len(Standard(manifest)) =>
          \A j \in DOMAIN paths \ {i} : paths[i] # paths[j]
================================================================================
