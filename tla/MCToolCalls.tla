----------------------------- MODULE MCToolCalls -----------------------------
(* Instances of ToolCalls for TLC.                                         *)
EXTENDS ToolCalls

CONSTANTS c1, c2, Push, Rm, And

W(a) == [flag |-> "", arg |-> a, syntax |-> FALSE]
Op(a) == [flag |-> "", arg |-> a, syntax |-> TRUE]
Opt(f, a) == [flag |-> f, arg |-> a, syntax |-> FALSE]

\* An empty command, a denied and a suspect one, and each way to give a count.
MCCommands ==
    {<<>>, <<W(Rm), W(Push)>>,
     <<W(Pytest), Opt("-n", None), W(AutoWord), Opt("--numprocesses", 3)>>,
     <<W(Push), W(Make), Opt("-j", None), W(3), Opt("--jobs", 3)>>,
     <<W(Make), Opt("-j", None)>>,
     <<W(Cargo), Opt("--jobs", None), W(3)>>}

\* `push && make -j' and `make -j' with a stray quote.
CompoundCommands ==
    {<<W(Push), Op(And), W(Make), Opt("-j", None)>>,
     <<W(Make), Opt("-j", None), W(Unbalanced)>>}

Server(max, memMax, dialogs, audit) ==
    [max |-> max, mem |-> 2, memMax |-> memMax, dialogs |-> dialogs,
     audit |-> audit]

\* memMax 1 is a machine whose safe maximum is below the normal cap.
Servers == {Server(1, 1, TRUE, TRUE), Server(1, 3, FALSE, TRUE),
            Server(2, 3, TRUE, TRUE), Server(1, 3, TRUE, FALSE)}
OneServer == {Server(2, 3, TRUE, TRUE)}
MCSizes == {None, 0, 3}
=============================================================================
