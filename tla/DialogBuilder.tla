--------------------------- MODULE DialogBuilder ---------------------------
(***************************************************************************)
(* The class DialogBuilder, as far as PlayerDialog uses it: every call     *)
(* appends a line of fields to the text of the dialog, and nothing escapes *)
(* what the fields hold.  Labels and sizes are single words.               *)
(***************************************************************************)
EXTENDS TextParse, SequencesExt

\* fmt::format("\nname|field|...|field").
Line(name, fields) ==
  <<NewLine, name>>
    \o FlattenSeq([i \in DOMAIN fields |-> <<Bar>> \o fields[i]])

SetDefaultColor == Line("set_default_color", << <<"o">> >>)
AddSpacer == Line("add_spacer", << <<"small">>, << >> >>)
AddLabel(label) ==
  Line("add_label", << <<"big">>, label, <<"left">>, <<"0">>, << >> >>)
AddTextbox(label) == Line("add_textbox", <<label, << >> >>)
AddTextInput(name, label, inside) ==
  Line("add_text_input", <<name, label, inside, <<"18">>, << >> >>)
AddTextInputPassword(name, label, inside) ==
  Line("add_text_input_password", <<name, label, inside, <<"18">>, << >> >>)
EndDialog(name, cancel, ok) == Line("end_dialog", <<name, cancel, ok, << >> >>)

\* PlayerDialog::Send for DIALOG_TYPE_REGISTRATION.
Registration(data) ==
  LET value(key) == Get(data, <<key>>, 1)
  IN SetDefaultColor \o AddLabel(<<"Get a GrowID!">>) \o AddSpacer
     \o (IF value("extra_message") = << >> THEN << >>
         ELSE AddTextbox(value("extra_message")) \o AddSpacer)
     \o AddTextbox(<<"By choosing a GrowID">>)
     \o AddTextInput(<<"logon">>, <<"Name ">>, value("logon"))
     \o AddSpacer
     \o AddTextbox(<<"Your password must contain">>)
     \o AddTextInputPassword(<<"password">>, <<"Password ">>, value("password"))
     \o AddTextInputPassword(<<"verify_password">>, <<"Password Verify ">>,
                             value("verify_password"))
     \o AddSpacer
     \o EndDialog(<<"growid_apply">>, <<"Cancel">>, <<"Get a GrowID">>)
=============================================================================
