----------------------------- MODULE MCKeyCustody -----------------------------
(* Small instances of KeyCustody: a lifetime of sixteen epochs and, to keep   *)
(* copies and crashes few enough, three epochs to sign at. They are the first *)
(* of the second bottom tree, which a slide keeps, its last, and the first of *)
(* the third.                                                                 *)
EXTENDS KeyCustody

CONSTANTS m1, m2

MCRequest == {<<0, 16>>}
MCSignEpoch == {4, 7, 8}
MCMessage == {m1, m2}
MCEncodable == (MCSignEpoch \X MCMessage) \ {<<7, m2>>}
===============================================================================
