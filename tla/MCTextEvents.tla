---------------------------- MODULE MCTextEvents ----------------------------
(***************************************************************************)
(* Texts of a first line (or two) and up to MaxMore further ones, with     *)
(* every key the handlers look up, with a value, with none and with        *)
(* another key for a value, and lines of delimiters or of nothing.         *)
(***************************************************************************)
EXTENDS TextEvents

CONSTANT MaxMore

FirstLines ==
  {<<"action", "|", "dialog_return">>, <<"action", "|", "dialog_return", "\r">>,
   <<"action", "|", "dialog_return", "\n", "dialog_name", "|", "growid_apply">>,
   <<"action", "|", "|", "dialog_return", "|">>, <<"action", "\r", "|", "x">>,
   <<"action", "|">>, <<"action", "|", "x">>, <<"action">>, <<"|">>, << >>,
   <<"requestedName", "|", "x", "\n", "country", "|", "x", "\n", "rid", "|", "x",
     "\n", "game_version", "|", "x", "\n", "platformID", "|", "x">>,
   <<"requestedName", "|", "x">>, <<"requestedName", "|">>}
MoreLines ==
  {<<"dialog_name", "|", "growid_apply">>, <<"dialog_name", "|", "x">>,
   <<"logon", "|", "password", "|", "x">>, <<"password", "|", "logon">>,
   <<"password", "|", "x">>,
   <<"verify_password", "|", "x", "\r">>, <<"country", "|", "x">>,
   <<"|", "|">>, <<"\r">>, << >>}

Joined(lines) ==
  FlattenSeq([i \in DOMAIN lines |->
                IF i = 1 THEN lines[i] ELSE <<"\n">> \o lines[i]])
MCTexts ==
  {Joined(<<first>> \o more) :
     first \in FirstLines, more \in BoundedSeq(MoreLines, MaxMore)}
=============================================================================
