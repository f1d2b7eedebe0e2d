---------------------------- MODULE MCAdmission ----------------------------
(* The symmetry of the checked instance of Admission: sessions and requests *)
(* are interchangeable.                                                    *)
EXTENDS Admission, TLC

Interchangeable == Permutations(Sessions) \cup Permutations(Requests)

=============================================================================
