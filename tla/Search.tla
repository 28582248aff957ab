-------------------------------- MODULE Search --------------------------------
(***************************************************************************)
(* searchInIndex of TreeFilesService: a search by name in the index of a   *)
(* user's files.  The first loop takes matches out of the list it goes     *)
(* through, and so passes over the element after each; what is left is     *)
(* searched by bisection.  Each loop is a fold of one turn of it.          *)
(*                                                                         *)
(* An index is sorted by lower-case name, so all that counts of it is which*)
(* names match the pattern and how many come before its source.            *)
(***************************************************************************)
EXTENDS Integers, Sequences, SequencesExt

CONSTANT MaxLength    \* bound on the length of an index

SearchAssumption == MaxLength \in Nat

Indexes == UNION {[matches : [1 .. n -> BOOLEAN], below : 0 .. n] : n \in 0 .. MaxLength}

(* A file is its place in the index.                                       *)
All(index) == [i \in 1 .. Len(index.matches) |-> i]

(* Mutant: a match stays in the list.                                      *)
VisitKeeping(index, state, i) ==
    IF i <= Len(state.files) /\ index.matches[state.files[i]]
    THEN [state EXCEPT !.results = Append(@, state.files[i])]
    ELSE state

(* One call of the callback of forEach, with splice.  Places at the end    *)
(* that are gone by then are not visited.                                  *)
Visit(index, state, i) ==
    IF i <= Len(state.files) /\ index.matches[state.files[i]]
    THEN [files |-> RemoveAt(state.files, i), results |-> Append(state.results, state.files[i])]
    ELSE state

ForEach(index) ==
    FoldLeft(LAMBDA state, i : Visit(index, state, i),
             [files |-> All(index), results |-> <<>>], All(index))

(* One turn of the bisection: it stops at a match, or goes on in half the  *)
(* window, to the right if the name in the middle is below the pattern.    *)
Narrow(index, files, window) ==
    LET mid == (window.left + window.right) \div 2
    IN  IF window.left > window.right \/ window.found # 0 THEN window
        ELSE IF index.matches[files[mid]] THEN [window EXCEPT !.found = mid]
        ELSE IF files[mid] <= index.below THEN [window EXCEPT !.left = mid + 1]
        ELSE [window EXCEPT !.right = mid - 1]

(* The bisection, which turns at most once for each file (BisectEnds):     *)
(* found is the place of the first match it comes across, or 0.            *)
Bisect(index, files) ==
    FoldLeft(LAMBDA window, file : Narrow(index, files, window),
             [left |-> 1, right |-> Len(files), found |-> 0], files)

(* From a match on, the places to the left of it and then those to its     *)
(* right.                                                                  *)
Outwards(mid, i) == IF i <= mid THEN mid - i + 1 ELSE i

Push(index, results, file) ==
    IF index.matches[file] THEN Append(results, file) ELSE results

Around(index, files, mid) ==
    FoldLeft(LAMBDA results, i : Push(index, results, files[Outwards(mid, i)]),
             <<>>, [i \in 1 .. Len(files) |-> i])

SearchInIndex(index) ==
    LET first == ForEach(index)
        mid == Bisect(index, first.files).found
    IN  IF mid = 0 THEN first.results ELSE first.results \o Around(index, first.files, mid)

-----------------------------------------------------------------------------
(* A search finds files that match, each once.  If the bisection comes     *)
(* across a match, it finds all; if not, it misses files, but only those   *)
(* whose neighbour before them the first loop found, so with no two        *)
(* neighbours that match it finds all, too.                                *)
SearchMissesOnlyNeighbours(index) ==
    LET first == ForEach(index).results
        found == ToSet(SearchInIndex(index))
        matching == {i \in DOMAIN index.matches : index.matches[i]}
    IN  /\ IsInjective(SearchInIndex(index))
        /\ found \subseteq matching
        /\ found # matching => found = ToSet(first)
        /\ \A i \in matching \ ToSet(first) : i - 1 \in ToSet(first)
=============================================================================
