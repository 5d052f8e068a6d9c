------------------------------- MODULE MCPipe -------------------------------
(* A pipe with a cyclic file whose client stalls again and again: three    *)
(* ranges of the file and two raw buffers are on their way at once.        *)
EXTENDS EventPipe

Cyclic == [num |-> 2, busy |-> 2, cacheable |-> FALSE, cyclic |-> TRUE, single |-> FALSE, threads |-> FALSE,
           rate |-> FALSE, fileMax |-> 9, writeSize |-> 2, length |-> AnyLength, total |-> 17]
MCPipeConfs == {Cyclic}
PipeSpec == PipeInit /\ [][PipeNext]_pipe
=============================================================================
