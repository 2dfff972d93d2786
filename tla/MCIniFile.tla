------------------------------ MODULE MCIniFile ------------------------------
(* All files of up to three lines over names of which some begin others, those
   of four lines that begin with the section, none, and one that is too long.  *)
EXTENDS IniFile

Sect == <<"Coin", "figuration">>
Mode == <<"Work", "Mode">>
Dir == <<"Data", "Directory">>
KeySeq == <<Mode, Dir>>
AllNames == {Sect, <<"Coin">>, Mode, <<"Work">>, Dir, <<>>}

\* Lines of the section, of another one and of none.
Lines == {Sec(Sect), Sec(<<"Coin">>), Sec(Dir), Key(Mode, 1), Key(<<"Work">>, 2), Key(Mode, Text),
          Key(Dir, 2), Key(<<>>, 1), Other}
AllFiles ==
    UNION {[1 .. n -> Lines] : n \in 0 .. 3}
        \cup {<<Sec(n)>> \o f : n \in {Sect, <<"Coin">>}, f \in [1 .. 3 -> Lines]}
        \cup {Missing, [i \in 1 .. 6 |-> Other]}

\* What it may be replaced by while Configuration reads.
Uploads == {<<Sec(Sect), Key(Dir, 1), Key(Mode, 2)>>, Missing}
=============================================================================
