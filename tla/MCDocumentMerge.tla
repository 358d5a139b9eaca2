-------------------------- MODULE MCDocumentMerge --------------------------
(* Instance of DocumentMerge for TLC: both clones start from two keys. *)
EXTENDS DocumentMerge

CONSTANTS a, b, c, v1, v2, s1, s2, r1, r2

Start(k) == [key |-> k, value |-> v1, style |-> s1]

Comment == [key |-> NoKey, value |-> NoItem, style |-> s1]

MCFirstTexts == {[lines |-> <<Start(a), Start(b)>>, rest |-> r1]}

\* A key with comments below it.
MCCommented == {[lines |-> <<Start(a), Comment, Comment, Comment>>, rest |-> r1]}
=============================================================================
