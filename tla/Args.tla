---------------------------------- MODULE Args ----------------------------------
(***************************************************************************)
(* lib/args.c: flags and their values are taken out of argc and argv, in   *)
(* place.  A program calls argnext until it returns -1, and argvalue after *)
(* a flag of ValueFlags, as in the example of inc/args.h.                  *)
(*                                                                         *)
(* An argument is a sequence of characters; NULL ends argv, whose first    *)
(* element, the program's name, has index 0.                               *)
(***************************************************************************)
EXTENDS Integers, Sequences

CONSTANTS
  Arguments,     \* the arguments a program may have
  MaxArguments,  \* bound: how many
  ValueFlags     \* the flags that take a value

None == <<"NULL">>

VARIABLES
  argc, argv,    \* argv[0 .. argc]
  curarg,        \* what is left of the current flags, or None
  called,        \* the last flag that wants its value, or None
  returned,           \* history: the flags and values returned
  given          \* history: the arguments the program got

argVars == <<argc, argv, curarg, called, returned, given>>

\* argstart
ArgInit ==
  \E n \in 0 .. MaxArguments : \E args \in [1 .. n -> Arguments] :
    /\ given = args
    /\ argc = n + 1
    /\ argv = [i \in 0 .. n + 1 |-> IF i = 0 THEN <<"prog">> ELSE IF i <= n THEN args[i] ELSE None]
    /\ curarg = IF argc > 1 THEN <<>> ELSE None
    /\ called = None
    /\ returned = <<>>

\* memmove(argv + 1, argv + 2, sizeof(char *) * (argc - 1)); argc--
Moved(n) == n - 1
Shift ==
  /\ argv' = [i \in DOMAIN argv |-> IF i \in 1 .. Moved(argc) THEN argv[i + 1] ELSE argv[i]]
  /\ argc' = argc - 1

IsFlags(arg) == Len(arg) > 1 /\ arg[1] = "-"
Returned(c) ==
  /\ returned' = Append(returned, <<"flag", c>>)
  /\ called' = IF c \in ValueFlags THEN <<c>> ELSE None

\* argnext: from the current argument, or from the next one
NextInArg ==
  /\ Len(curarg) > 0
  /\ Returned(curarg[1])
  /\ curarg' = Tail(curarg)
  /\ UNCHANGED <<argc, argv>>
NextArg ==
  /\ curarg = <<>>
  /\ IF argc = 1 \/ (argc > 1 /\ ~IsFlags(argv[1]))
     THEN curarg' = None /\ UNCHANGED <<argc, argv, returned, called>>
     ELSE /\ Shift
          /\ IF argv[1] = <<"-", "-">>
             THEN curarg' = None /\ UNCHANGED <<returned, called>>
             ELSE Returned(argv[1][2]) /\ curarg' = Tail(Tail(argv[1]))
argnext ==
  /\ called = None /\ curarg # None
  /\ NextInArg \/ NextArg
  /\ UNCHANGED given

\* argvalue right after argnext, which is argnextvalue
argvalue ==
  /\ called # None
  /\ called' = None
  /\ IF curarg # <<>>
     THEN /\ returned' = Append(returned, <<"value", curarg>>)
          /\ curarg' = <<>>
          /\ UNCHANGED <<argc, argv>>
     ELSE IF argc > 1
     THEN /\ returned' = Append(returned, <<"value", argv[1]>>)
          /\ Shift
          /\ UNCHANGED curarg
     ELSE /\ returned' = Append(returned, <<"value", None>>)
          /\ curarg' = None
          /\ UNCHANGED <<argc, argv>>
  /\ UNCHANGED given

ArgNext == argnext \/ argvalue

-----------------------------------------------------------------------------
\* inc/args.h, by definition: what main gets of some arguments, and what stays.
\* Read[cur, args]: cur is what is left of the current flags.
Doc[cur \in Seq(STRING), args \in Seq(Seq(STRING))] ==
  LET After(c, more, rest) ==
        IF c \notin ValueFlags
        THEN LET r == Doc[more, rest] IN [r EXCEPT !.got = <<<<"flag", c>>>> \o @]
        ELSE LET value == IF more # <<>> THEN more ELSE IF rest # <<>> THEN rest[1] ELSE None
                 r == IF more # <<>> THEN Doc[<<>>, rest]
                      ELSE IF rest # <<>> THEN Doc[<<>>, Tail(rest)]
                      ELSE [got |-> <<>>, left |-> <<>>]
             IN  [r EXCEPT !.got = <<<<"flag", c>>, <<"value", value>>>> \o @]
  IN  IF cur # <<>> THEN After(cur[1], Tail(cur), args)
      ELSE IF args = <<>> THEN [got |-> <<>>, left |-> <<>>]
      ELSE IF Len(args[1]) <= 1 \/ args[1][1] # "-" THEN [got |-> <<>>, left |-> args]
      ELSE IF args[1] = <<"-", "-">> THEN [got |-> <<>>, left |-> Tail(args)]
      ELSE After(args[1][2], Tail(Tail(args[1])), Tail(args))

\* At the end main has seen the flags and values the header promises, argv
\* holds the other arguments in their order, and is still ended by NULL.
ArgsAsDocumented ==
  curarg = None /\ called = None =>
    LET doc == Doc[<<>>, given]
    IN  /\ returned = doc.got
        /\ [i \in 1 .. argc - 1 |-> argv[i]] = doc.left
        /\ argv[argc] = None
=============================================================================
