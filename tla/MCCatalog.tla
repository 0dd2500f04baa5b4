----------------------------- MODULE MCCatalog -----------------------------
(***************************************************************************)
(* Instances of Catalog and Accounts for TLC: an owner, and two grades, of *)
(* which the first has a subject with a teacher, a topic with a file, a    *)
(* session and a video.                                                    *)
(***************************************************************************)
EXTENDS Accounts, TLC

CONSTANTS
    tenth, eleventh, twelfth, math, physics, sami, rana,
    algebra, analysis, first, second, intro, proof, plan, notes, huda, omar, ali, a, b

MCSeeded == {tenth, eleventh, math, sami, <<math, sami>>, algebra, first, intro, plan, huda}
MCSeedParent ==
    tenth :> AllGrades @@ eleventh :> AllGrades @@ math :> tenth @@ sami :> AllTeachers @@
    <<math, sami>> :> math @@ algebra :> <<math, sami>> @@ first :> algebra @@ intro :> first @@
    plan :> algebra @@ huda :> NoGrade
MCSeedName == [i \in MCSeeded |-> IF i = <<math, sami>> THEN Nothing ELSE IF i = eleventh THEN b ELSE a]

Symmetry == Permutations(Requests)

=============================================================================
