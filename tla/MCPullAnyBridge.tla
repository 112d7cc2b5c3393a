-------------------------- MODULE MCPullAnyBridge --------------------------
(***************************************************************************)
(* Up to two files of at most two chunks, and every frame about them,      *)
(* those with a wrong file, size, offset or digest included.               *)
(***************************************************************************)
EXTENDS PullAnyBridge

MCManifests == {<< >>, <<1>>, <<2, 0>>, <<0, 1>>}

MCFrames ==
  {ManifestFrame(m) : m \in MCManifests}
  \cup {FileStart(i, size) : i \in 1..2, size \in 0..2}
  \cup {FileChunk(o, data) : o \in 0..1, data \in Data}
  \cup {FileEnd(i) : i \in 1..2}
  \cup {CompleteFrame, PullErrorFrame, EndOfStream}
=============================================================================
