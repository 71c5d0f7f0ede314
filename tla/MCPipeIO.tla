------------------------------ MODULE MCPipeIO ------------------------------
EXTENDS PipeIO

(* With Done, one name fits in the buffer and two names do not; the buffer *)
(* ends inside the third line of four, which are longer than the memory    *)
(* that is allocated first.                                                *)
MCInitFiles == {<<"r0">>, <<"r0", "r1">>, <<"r0", "r1", "r2", "r3">>}

(* An ordinary sum, one with the sign bit, an empty result, and one whose  *)
(* rows have the sum 0.                                                    *)
MCResult == [q1 |-> [rows |-> 1, sum |-> 5], q2 |-> [rows |-> 1, sum |-> 130],
             q3 |-> [rows |-> 0, sum |-> 0], q4 |-> [rows |-> 1, sum |-> 0]]

(* Batches that fit, of one query or two; one that does not fit; an empty  *)
(* one between two others, and at the end; two whose first answer fails.   *)
MCWorkloads == {<< <<"q1">>, <<"q1", "q3">> >>, << <<"q1", "q3", "q1">>, <<"q2">> >>,
                << <<"q1">>, <<>>, <<"q1">> >>, << <<"q1">>, <<>> >>,
                << <<"q2">>, <<"q1">> >>, << <<"q4">>, <<"q1">> >>}
=============================================================================
