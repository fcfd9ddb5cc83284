------------------------------ MODULE MCKGIndex ------------------------------
(* TLC instances of KGIndex. *)
EXTENDS KGIndex, TLC

CONSTANTS d1, linking, second

Symmetry == Permutations(Builders)

MCIdOf == [p \in Paths |-> d1]

MCLinksOf == [b \in Bodies |-> IF b = linking THEN {d1} ELSE {}]

\* Bound: of the readable files there is one that links and one that refers.
TwoTexts ==
  \A p \in Paths : file[p] \in {None, Garbled, [body |-> linking, refs |-> {}],
                                [body |-> Empty, refs |-> {d1}]}

\* Bound: with a second file of the name, one command runs at a time.
TwoFilesOrTwoCommands ==
  \/ /\ file[second] = None
     /\ \A b \in Builders :
          build[b] = NoBuild \/ Dropping(b) \/ second \notin build[b].todo
  \/ \A b, c \in Builders : b # c => NoBuild \in {build[b], build[c]}

MCNext == Next /\ TwoTexts' /\ TwoFilesOrTwoCommands'
MCSpec == Init /\ [][MCNext]_kgVars
=============================================================================
