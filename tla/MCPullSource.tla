---------------------------- MODULE MCPullSource ----------------------------
(***************************************************************************)
(* Pulls of a file and of directories, one with a sibling whose name sorts *)
(* between a directory and its entries and one with a name the receiver    *)
(* could not create.                                                       *)
(***************************************************************************)
EXTENDS PullSource

MCOrder == << <<>>, <<"CON">>, <<"s">>, <<"s-">>, <<"s", "f">> >>

NoNode == [kind |-> "none", stamp |-> 0, data |-> <<>>]
Dir == [kind |-> "directory", stamp |-> 1, data |-> <<>>]
File(bytes) == [kind |-> "file", stamp |-> 1, data |-> bytes]
Fifo == [kind |-> "other", stamp |-> 1, data |-> <<>>]

\* A tree from its nodes: object n is at the n-th path that has one.
Tree(most, nodes) ==
  LET here == InOrder(DOMAIN nodes) IN
  [bound |-> most,
   names |-> [p \in Paths |-> IF p \in DOMAIN nodes THEN CHOOSE n \in DOMAIN here : here[n] = p
                              ELSE None],
   inode |-> [n \in Inodes |-> IF n \in DOMAIN here THEN nodes[here[n]] ELSE NoNode]]

MCTrees ==
  {Tree(2, <<>> :> File(<<"x">>)),
   Tree(2, <<>> :> Dir @@ <<"s">> :> Dir @@ <<"s", "f">> :> File(<<"x">>) @@ <<"s-">> :> File(<<"y">>))}
SmallTrees ==
  {Tree(1, <<>> :> f) : f \in {Dir, Fifo, File(<<"x", "x", "y">>)}} \cup
  {Tree(1, <<>> :> Dir @@ p :> f) : p \in {<<"CON">>, <<"s-">>}, f \in {Dir, Fifo, File(<<"y", "x">>)}} \cup
  {Tree(1, <<>> :> Dir @@ <<"CON">> :> Dir @@ <<"s">> :> Dir @@ <<"s-">> :> Dir @@ <<"s", "f">> :> Dir),
   Tree(1, <<>> :> Dir @@ <<"s">> :> File(<<"x", "x">>) @@ <<"s-">> :> File(<<"x", "x">>))}
AllTrees == MCTrees \cup SmallTrees
=============================================================================
