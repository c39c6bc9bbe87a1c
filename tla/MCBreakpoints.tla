--------------------------- MODULE MCBreakpoints ---------------------------
(* Instances of Breakpoints for TLC. *)
EXTENDS Breakpoints

CONSTANTS f1, f2,           \* files; f1's name is the beginning of f2's
          main, run, strlen \* the script f1, a function in it, a built-in

MCCode ==
  [f \in Functions |->
    [file |-> f1,
     lines |-> IF f = main THEN 1..2 ELSE IF f = run THEN 3..3 ELSE {},
     kind |-> IF f = main THEN "script" ELSE IF f = run THEN "user" ELSE "internal"]]

\* Line 1 holds no code: the resolver moves it to 2, and finds none for f2.
MCResolvedLine == [k \in Files \X ClientLines |->
                    IF k[1] = f2 THEN 0 ELSE IF k[2] = 1 THEN 2 ELSE k[2]]

EqualNames == {<<f1, f1>>, <<f2, f2>>}
PrefixNames == EqualNames \cup {<<f1, f2>>}

Plain     == [disabled |-> FALSE, temporary |-> FALSE, condition |-> FALSE,
              hit_value |-> 0, hit_condition |-> "none"]
Temporary == [Plain EXCEPT !.temporary = TRUE]
\* Conditional, and stops at its second hit.
Counted   == [Plain EXCEPT !.condition = TRUE, !.hit_value = 2, !.hit_condition = "=="]

\* A class B that extends A; A is also the name an error goes by, which saves a name.
MCChain == [x \in Exceptions |-> IF x = "B" THEN <<"B", "A">> ELSE <<x>>]

NoUpdate == [s |-> None, n |-> None, h |-> None, o |-> None]
Enable   == [NoUpdate EXCEPT !.s = "enabled"]
BadOp    == [NoUpdate EXCEPT !.h = 1, !.o = "invalid"]
Move     == [NoUpdate EXCEPT !.n = 2]

SomeOptions == {Temporary, Counted}
SomeUpdates == {Enable, BadOp}
AnyUpdates  == {Enable, Move}
Moves       == {Move}
OneTemporary == {Temporary}
JustPlain    == {Plain}
=============================================================================
