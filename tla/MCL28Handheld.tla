--------------------------- MODULE MCL28Handheld ---------------------------
(***************************************************************************)
(* Sessions that each exercise some of the devices: the keyboard with a    *)
(* ring of three, the display, the flash through two windows on a chip,    *)
(* timer 1, and the two serial receivers.                                  *)
(***************************************************************************)
EXTENDS L28Handheld

None == [l28 |-> TRUE, console |-> FALSE, programs |-> {}, events |-> {}, pieces |-> 0, keys |-> 0, bytes |-> 0]

Key(base, chars, shift, ctrl) == [base |-> base, chars |-> chars, shift |-> shift, ctrl |-> ctrl]
Typing ==
    [None EXCEPT !.console = TRUE, !.keys = 4, !.pieces = 1,
        !.programs = {<<Store(EIR, 1)>>},
        !.events = {Key("a", "a", FALSE, FALSE), Key("a", "A", TRUE, FALSE), Key("c", "^C", FALSE, TRUE),
                    Key("DEL", "DEL", FALSE, FALSE), Key("other", "other", TRUE, FALSE)}]

LCD(cmd, data) == <<Store(\h600, cmd)>> \o [k \in DOMAIN data |-> Store(\h601, data[k])]
Drawing ==
    [None EXCEPT !.console = TRUE, !.pieces = 4,
        !.programs = {LCD(\h29, <<>>), LCD(\h28, <<>>), LCD(\h21, <<>>), LCD(\h20, <<>>), LCD(\h01, <<>>),
                      LCD(\h2A, <<0, 1, 0, 1>>), LCD(\h2B, <<0, 1, 0, 2>>), LCD(\h2C, <<\hC0, \h18, \hD8>>),
                      LCD(\h36, <<\hC0>>), LCD(\h33, <<0, 1, 0, 2, 0, 0>>), LCD(\h37, <<0, 1>>),
                      LCD(\h37, <<0>>), LCD(\hC7, <<20>>), LCD(\h2E, <<>>) \o <<Load(\h601), Load(\h601)>>}]

\* A reset while a display that is all on, and inverted, is drawn: the picture of
\* the one that is reset is the same.
AllOn == LCD(\h2C, [k \in 1 .. 6 |-> \hD8]) \o LCD(\h21, <<>>)
Resetting == [Drawing EXCEPT !.pieces = 3, !.programs = {AllOn, LCD(\h29, <<>>), LCD(\h01, <<>>)}]

Window2 == \hA000   \* window 5, as the firmware sets it
Programming ==
    [None EXCEPT !.pieces = 7,
        !.programs = {<<Store(ea, v)>> : ea \in {\h5555, \h2AAA, Window2 + \h1555}, v \in {\hAA, \h55, \hA0, \h80, \h30}}
                     \cup {<<Store(\h1D, \h52)>>, <<Store(\h1D, \h12)>>, <<Store(\h1D, \h40)>>, <<Store(Window2 + 7, \hF0)>>,
                           <<Store(Window2 + 7, \h10)>>, <<Load(\h5555)>>}]

V(reg, data) == <<Store(\hC020 + reg, data)>>
Timing ==
    [None EXCEPT !.pieces = 6,
        !.programs = {V(\hB, \h40), V(\hB, 0), V(\h4, 3), V(\h6, 5), V(\h5, 0), V(\h7, 0), V(\hE, \hC0), V(\hE, \h40),
                      V(\hD, \h40), <<Load(\hC024)>>}]

Receiving == [None EXCEPT !.bytes = 4, !.pieces = 3,
                 !.programs = {<<Await(\h3C), Load(\h38)>>, <<Store(\h3C, \hFF)>>, <<Store(\h38, 1), Load(\h39)>>}]
Receiving6551 == [None EXCEPT !.l28 = FALSE, !.bytes = 4, !.pieces = 3,
                 !.programs = {<<Await(\hC001), Load(\hC000)>>, <<Store(\hC001, 0)>>, <<Store(\hC000, 1), Load(\hC002)>>}]

MCSessions == {Typing, Drawing, Resetting, Programming, Timing, Receiving, Receiving6551}
\* The programs do what InputArrives needs.
ASSUME FirmwareAssumption == LeavesKeysToHandler /\ WaitsForBytes

MCAddresses == {\h4007, \h4555, \h5555, \h2AAA, \h2007}
MCRom == [a \in MCAddresses |-> IF a = \h4007 THEN \h3C ELSE 0]
=============================================================================
