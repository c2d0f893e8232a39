------------------------------ MODULE MCEngine ------------------------------
(***************************************************************************)
(* Small personas for Engine: a folder with a file beside a file; a letter  *)
(* and its answer; two events; and one with two services, to reset, seed    *)
(* and repair one without the other.                                       *)
(***************************************************************************)
EXTENDS Engine

Empty == [serves |-> {}, files |-> {}, letters |-> <<>>, parent |-> <<>>,
          events |-> <<>>, touched |-> FALSE, commands |-> 4, edits |-> 1]

OfDrive == [Empty EXCEPT !.serves = {"drive"}, !.files = {<<"d", "f">>, <<"g">>}]
OneFile == [OfDrive EXCEPT !.files = {<<"d", "f">>}, !.edits = 2]
TwoFiles == [OfDrive EXCEPT !.files = {<<"f">>, <<"g">>}, !.edits = 2,
             !.serves = {"drive", "calendar"}, !.commands = 3]
OfMail == [Empty EXCEPT !.serves = {"gmail"}, !.letters = <<"a", "b">>, !.edits = 2,
           !.parent = ("a" :> NoLetter) @@ ("b" :> "a")]
OfCalendar == [Empty EXCEPT !.serves = {"calendar"}, !.events = <<"x", "y">>,
               !.touched = TRUE, !.edits = 2]
Mixed == [Empty EXCEPT !.serves = {"gmail", "calendar"}, !.letters = <<"a">>,
          !.parent = ("a" :> NoLetter), !.events = <<"x", "y">>]
FileAndEvent == [Empty EXCEPT !.serves = {"drive", "calendar"}, !.files = {<<"g">>},
                 !.events = <<"x">>]

Personas == {OfDrive, OneFile, TwoFiles, OfMail, OfCalendar, Mixed, FileAndEvent}
FilesOnly == {OneFile}
=============================================================================
