---------------------------- MODULE MCMetaCache ----------------------------
(* Two callers, of linters with different cache versions; a version that  *)
(* takes two writes, so that encodings can be mixed, and one that takes a  *)
(* single write. The inodes are enough for every name and caller to have   *)
(* one of its own.                                                         *)
EXTENDS MetaCache, TLC

CONSTANTS c1, c2, v1, v2, i1, i2, i3, i4, i5, i6

MCCallers == {c1, c2}
MCVersions == {v1, v2}
MCBroken == {}
MCCommitted == {v1}
MCSize == (v1 :> 2) @@ (v2 :> 1)
MCBuild == (c1 :> 1) @@ (c2 :> 2)
MCInodes == {i1, i2, i3, i4, i5, i6}

\* Which inodes the names and the callers refer to does not matter, nor does
\* what is in one that nobody refers to.
Refers(h, c) == [entry |-> fd[c] = entry[h], tmp |-> fd[c] = tmp[h]]
View ==
    <<source, pc, given, hash, symbols, pos, contended, stale, crashed,
      edits, faults,
      [h \in Versions |-> <<entry[h] = None, Text(entry[h]),
                           tmp[h] = None, Text(tmp[h])>>],
      [c \in Callers |-> <<fd[c] = None, Text(fd[c]),
                          [h \in Versions |-> Refers(h, c)],
                          {d \in Callers : fd[d] = fd[c]}>>]>>
=============================================================================
