----------------------------- MODULE BanListCatalog -----------------------------
(* src/src/ygopro/ban-list/infrastructure/YGOProBanListMemoryRepository.ts:     *)
(* how a rule finds its ban list among those loaded, and what room creation     *)
(* falls back to when it is not there.  A catalog is a sequence of lists; the   *)
(* code's indices count from 0.  A list is a record                             *)
(*   alias  the key of its formats/<alias> directory, "" without one            *)
(*   kind   "TCG" or "OCG" when its name says so, else "other"                  *)
(*   date   of a name of the form "YYYY.MM TCG", 0 for any other name           *)
(*   keys   the alias keys its normalized name includes                         *)
(*   rank   its place among the names, by length and then alphabetically        *)
(*   hash   of its contents                                                     *)
EXTENDS Integers, Sequences, FiniteSets, SequencesExt

NoList == -1

(* Lists of the catalog that satisfy Test, by the code's index.                 *)
IndicesOf(lists, Test(_)) == {i \in 0..Len(lists) - 1 : Test(lists[i + 1])}

First(indices) == CHOOSE i \in indices : \A j \in indices : i <= j

IncludesTCG(list) == list.kind = "TCG"
IncludesOCG(list) == list.kind = "OCG"
Dated(list) == list.kind = "TCG" /\ list.date > 0

Newest(lists, dated) ==
  First({i \in dated : \A j \in dated : lists[i + 1].date >= lists[j + 1].date})

getNewestTCGIndex(lists) ==
  LET dated == IndicesOf(lists, Dated)
      named == IndicesOf(lists, IncludesTCG)
  IN IF dated # {} THEN Newest(lists, dated)
     ELSE IF named # {} THEN First(named) ELSE 0

getFirstOCGIndex(lists) ==
  LET named == IndicesOf(lists, IncludesOCG)
  IN IF named # {} THEN First(named) ELSE 0

(* findIndexByAlias: the alias field, else the shortest name that includes it.  *)
findIndexByAlias(lists, alias) ==
  LET ByField(list) == list.alias = alias
      ByName(list) == alias \in list.keys
      field == IndicesOf(lists, ByField)
      names == IndicesOf(lists, ByName)
  IN IF field # {} THEN First(field)
     ELSE IF names # {}
     THEN CHOOSE i \in names : \A j \in names \ {i} :
            \/ lists[i + 1].rank < lists[j + 1].rank
            \/ lists[i + 1].rank = lists[j + 1].rank /\ i < j
     ELSE NoList

(* findLFListByIndex                                                            *)
Listed(lists, index) == index \in 0..Len(lists) - 1

(* RuleMappings.resolveAliasIndex                                               *)
resolveAliasIndex(lists, alias, fallback) ==
  LET i == findIndexByAlias(lists, alias) IN IF i = NoList THEN fallback ELSE i
================================================================================
