----------------------------- MODULE MCFileUploads -----------------------------
(***************************************************************************)
(* Four uploads for TLC: two of one content and, for the two staging names *)
(* that a later stream may reuse, one of a content that is refused and one *)
(* of the content that is uploaded again.                                  *)
(***************************************************************************)
EXTENDS FileUploads, TLC

CONSTANTS r1, r2, r3, r4, good, bad, n1, n2, n3

Lengths == (good :> 2) @@ (bad :> 1)

Bodies == (r1 :> good) @@ (r2 :> good) @@ (r3 :> bad) @@ (r4 :> good)

\* r4 may compute the name r1 had
Reused == (r1 :> n1) @@ (r2 :> n2) @@ (r3 :> n3) @@ (r4 :> n1)

\* Two uploads, the second under the name of the first
TwoBodies == (r1 :> good) @@ (r2 :> bad)
OneName == (r1 :> n1) @@ (r2 :> n1)
================================================================================
