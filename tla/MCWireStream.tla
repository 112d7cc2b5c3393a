---------------------------- MODULE MCWireStream ----------------------------
(***************************************************************************)
(* Every result around the limit of the output, a manifest that just fits  *)
(* into a frame and one that does not, a transfer at its limit.            *)
(***************************************************************************)
EXTENDS WireStream

Printed(n, b) == [k \in 1..n |-> b]
Around ==
  {[stdout |-> Printed(o, "o"), stderr |-> Printed(e, "e"), note |-> Printed(n, "n")] :
     o \in 0..3, e \in 0..2, n \in 0..1}
Pulled == {<<>>, <<0>>, <<2>>, <<1, 2>>, <<0, 1, 0>>}
Asked == {Message("run", Field("script"), <<>>), Message("pull", Field("path"), <<>>)}
Other(field, value) == [Header("exit", Field("good")) EXCEPT ![field] = value]
Wrong ==
  {Number(0), Number(1), Number(3), Number(MaxFrameUnits + 1), Byte("b"), Text(More),
   Text(Header("exit", Bad)), Text(Header("auth", Field("guess"))), Text(Header("stdout", Field("good")))}
    \cup {Text(Other("form", "binary")), Text(Other("form", "not json")),
          Text(Other("protocol", "theirs")), Text(Other("type", "unknown"))}
=============================================================================
