---------------------------- MODULE MCHttpClient ----------------------------
(* Instances of HttpClient for TLC. *)
EXTENDS HttpClient, TLC

\* Requests, and the threads submitting them, are interchangeable.
UserSymmetry == Permutations(Users)
=============================================================================
