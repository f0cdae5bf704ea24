------------------------------ MODULE MCCodecs ------------------------------
(***************************************************************************)
(* Small instances of Codecs: items whose tags, lengths and values lie on  *)
(* both sides of the boundaries of the encodings, and names that share     *)
(* suffixes, with and without a closing dot.                               *)
(***************************************************************************)
EXTENDS Codecs

Text(n) == [k \in 1..n |-> 97]

MCItems ==
    {[tag |-> 0, kind |-> "int", v |-> 0],
     [tag |-> 1, kind |-> "int", v |-> 15],
     [tag |-> 2, kind |-> "int", v |-> 16],
     [tag |-> 127, kind |-> "int", v |-> 4096],
     [tag |-> 128, kind |-> "int", v |-> 2147483647],
     [tag |-> 16384, kind |-> "string", v |-> <<>>],
     [tag |-> 3, kind |-> "string", v |-> Text(17)],
     [tag |-> 4, kind |-> "fixed", v |-> <<0, 255, 128>>],
     [tag |-> 2147483647, kind |-> "timeval", v |-> <<255, 999999>>]}

A == <<97>>
B == <<98, 98>>
C == <<99>>
NameBA == <<B, A>>
NameCBA == <<C, B, A>>
NameCdot == <<C, <<>> >>
NameAdot == <<A, <<>> >>

MCAsks ==
    {[name |-> n, type |-> t, trans_id |-> 513] :
        n \in {NameBA, NameCdot}, t \in {TYPE_A, TYPE_PTR, TYPE_AAAA}}

Address(n) == <<10, 0, 0, n>>
Address6(n) == [k \in 1..16 |-> IF k = 16 THEN n ELSE 0]
Record(name, type, ttl, is_name, data) ==
    [name |-> name, type |-> type, ttl |-> ttl, is_name |-> is_name, data |-> data]

MCRecords ==
    {Record(NameBA, TYPE_A, 70000, FALSE, Address(1)),
     Record(NameAdot, TYPE_A, 5, FALSE, Address(2) \o Address(3)),
     Record(NameCBA, TYPE_PTR, 9, TRUE, NameBA),
     Record(NameCdot, TYPE_PTR, 8, TRUE, NameAdot),
     Record(NameCdot, TYPE_AAAA, 7, FALSE, Address6(1))}

MCErrs == {0, 3}
=============================================================================
