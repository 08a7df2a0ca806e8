------------------------------- MODULE MCPopen -------------------------------
(* What is done with Popens, by QemuSystem and by other users of the library. *)
EXTENDS Popen

MCPopens == {1, 2}
StandardOpen == 0 .. 2

\* Some standard descriptors are open, or too few are free for two Popens.
AnyOpen == SUBSET StandardOpen \union {0 .. MaxFd - 3, 0 .. MaxFd - 7}

Given(args) == [args |-> args, closeFds |-> FALSE, deferSpawn |-> FALSE,
                calls |-> {"kill", "wait", "poll"}, open |-> StandardOpen]

\* QemuSystem.hpp:126: input{PIPE}, output{PIPE}, and all that is closed in the end.
MCQemu == {[Given(<<"input", "output">>) EXCEPT !.calls = {"close"}, !.open = open] : open \in AnyOpen}

\* Other arguments, when the standard descriptors are open.
MCLibrary == {Given(<<"input", "output", "error">>), Given(<<"output", "stdout">>), Given(<<>>),
              [Given(<<"error", "input">>) EXCEPT !.closeFds = TRUE]}

\* Popens that all exist before either is started.
MCDeferred == {[Given(<<"output">>) EXCEPT !.deferSpawn = TRUE]}

MCUsages == MCQemu \union MCLibrary \union MCDeferred
ASSUME PlainAssumption == \A u \in MCUsages : Plain(u)

=============================================================================
