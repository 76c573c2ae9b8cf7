---------------------------- MODULE MCPackStore ----------------------------
EXTENDS PackStore

Pack(ref, generation, seqs, supersedes) ==
    [ref |-> ref, generation |-> generation, seqs |-> seqs, supersedes |-> supersedes]

\* Two packs, their compaction into a later generation of the second, and a
\* further generation of that.
Compacted == {
    Pack(1, 0, {1}, {}),
    Pack(2, 0, {2}, {}),
    Pack(2, 1, {1, 2}, {1}),
    Pack(2, 2, {1, 2}, {1})}

=============================================================================
