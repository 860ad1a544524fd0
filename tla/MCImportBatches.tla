---------------------------- MODULE MCImportBatches ----------------------------
(***************************************************************************)
(* Files of two sessions, a and b, for ImportBatches.  AllFiles has two   *)
(* files that name the sessions in opposite orders, a relaunch of the     *)
(* first, and a file with a malformed line.                                *)
(***************************************************************************)
EXTENDS ImportBatches, TLC

CONSTANTS a, b, bash, read

Call(index) == [index |-> index]

Line(session, names, model_calls, tool_calls, rejected) ==
    [kind |-> "record", session |-> session, names |-> names,
     model_calls |-> model_calls, tool_calls |-> tool_calls, rejected |-> rejected]

Other(kind) ==
    [kind |-> kind, session |-> None, names |-> <<>>,
     model_calls |-> <<>>, tool_calls |-> <<>>, rejected |-> FALSE]

\* The call of b is numbered by its position; the session a goes on after b, in
\* another batch when BatchSize is 2
FileAB == <<
    Line(a, <<bash>>, <<Call(0)>>, <<Call(0)>>, FALSE),
    Other("blank"),
    Line(b, <<>>, <<Call(None)>>, <<>>, FALSE),
    Line(a, <<>>, <<Call(1)>>, <<>>, TRUE) >>

\* Opposite order; one line has no natural key, another repeats a call
FileBA == <<
    Line(b, <<read>>, <<Call(0)>>, <<>>, FALSE),
    Line(a, <<>>, <<Call(1)>>, <<Call(1)>>, FALSE),
    Line(None, <<>>, <<Call(0)>>, <<>>, FALSE),
    Line(b, <<bash>>, <<Call(0)>>, <<>>, FALSE) >>

FileBroken == <<
    Line(b, <<>>, <<Call(7)>>, <<>>, FALSE),
    Line(a, <<>>, <<>>, <<Call(0)>>, FALSE),
    Other("malformed"),
    Line(a, <<>>, <<Call(0)>>, <<>>, FALSE) >>

AllFiles == 1 :> FileAB @@ 2 :> FileBA @@ 3 :> FileAB @@ 4 :> FileBroken
================================================================================
