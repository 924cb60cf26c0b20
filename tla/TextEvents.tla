----------------------------- MODULE TextEvents -----------------------------
(***************************************************************************)
(* The way of one client's text through the handlers: ServerPool names its *)
(* event by the characters before the first "|", TextParse splits it into  *)
(* lines, OnAction, OnDialogReturn and OnDialogGrowIDApply look up one key *)
(* after another, and the answer goes out as frames, a refused applicant's *)
(* as a dialog with what was typed.  GameServer has this way as one step   *)
(* per outcome.                                                            *)
(***************************************************************************)
EXTENDS DialogBuilder, Packets, FiniteSets

CONSTANT Texts   \* the texts clients send

\* "undefined" is no word of theirs: it is what Undefined is made of.
Words == STRING \ {"undefined"}
ASSUME TextsAssumption == Texts \subseteq Seq(Words)

VARIABLES text,    \* the text being handled
          parser,  \* the eventParser made of it
          at,      \* the handler about to look at it
          typed,   \* the fields OnDialogGrowIDApply read
          dialog,  \* the TextParse it passes to PlayerDialog::Send
          sent     \* the frames given to ENet

vars == <<text, parser, at, typed, dialog, sent>>

\* The three registries, filled before main.
Events == {<<"requestedName">>, <<"action">>}
Actions == {<<"dialog_return">>}
Dialogs == {<<"growid_apply">>}

Fields == <<"logon", "password", "verify_password">>
NoFields == [i \in DOMAIN Fields |-> << >>]

Init ==
  /\ text = << >> /\ parser = << >>
  /\ at = "idle"
  /\ typed = NoFields /\ dialog = << >> /\ sent = << >>

\* data.substr(0, data.find('|')).
EventName(t) == SubSeq(t, 1, Find(t, Bar, 1) - 1)

\* AddQueue(name, TextParse(data)).
Receive ==
  /\ at = "idle"
  /\ text' \in Texts
  /\ parser' = Parse(text')
  /\ at' = "queued"
  /\ UNCHANGED <<typed, dialog, sent>>

Unhandled ==
  /\ at = "queued"
  /\ EventName(text) \notin Events
  /\ at' = "unhandled"
  /\ UNCHANGED <<text, parser, typed, dialog, sent>>

Value(key) == Get(parser, <<key>>, 1)

\* A handler that looks a key up goes on, by its value, to where.
LookUp(key, where) ==
  at' = IF Value(key) = Undefined THEN "undefined" ELSE where

\* TankInfo::Serialize: the keys are looked up in turn, and what they hold
\* (its length, that it is a number) decides how far.  If all is well, and the
\* name valid, PlayerDialog::Send is called with an empty TextParse.
SerializeKeys ==
  <<"requestedName", "country", "rid", "game_version", "platformID">>
OnRequestedName ==
  /\ at = "queued"
  /\ EventName(text) = <<"requestedName">>
  /\ \/ \E n \in DOMAIN SerializeKeys :
          /\ \A i \in 1 .. n - 1 :
               Value(SerializeKeys[i]) \notin {<< >>, Undefined}
          /\ LookUp(SerializeKeys[n], "done")
     \/ /\ \A i \in DOMAIN SerializeKeys :
             Value(SerializeKeys[i]) \notin {<< >>, Undefined}
        /\ at' = "send"
  /\ UNCHANGED <<text, parser, typed, dialog, sent>>

OnAction ==
  /\ at = "queued"
  /\ EventName(text) = <<"action">>
  /\ LookUp("action", IF Value("action") = << >> THEN "done"
                      ELSE IF Value("action") \in Actions THEN "dialog_return"
                      ELSE "logged")
  /\ UNCHANGED <<text, parser, typed, dialog, sent>>

OnDialogReturn ==
  /\ at = "dialog_return"
  /\ LookUp("dialog_name", IF Value("dialog_name") = << >> THEN "done"
                           ELSE IF Value("dialog_name") \in Dialogs
                                THEN "growid_apply"
                           ELSE "logged")
  /\ UNCHANGED <<text, parser, typed, dialog, sent>>

\* OnDialogGrowIDApply for a player with a GrowID already.
ApplyAgain ==
  /\ at = "growid_apply"
  /\ at' = "done"
  /\ UNCHANGED <<text, parser, typed, dialog, sent>>

\* The three fields are read; RegisterPlayer accepts or refuses them.
Apply ==
  /\ at = "growid_apply"
  /\ typed' = [i \in DOMAIN Fields |-> Value(Fields[i])]
  /\ \/ /\ Undefined \in ToSet(typed')
        /\ at' = "undefined"
     \/ /\ Undefined \notin ToSet(typed')
        /\ at' = "refused"
     \/ /\ Undefined \notin ToSet(typed') /\ << >> \notin ToSet(typed')
        /\ typed'[2] = typed'[3]
        /\ at' = "accepted"
  /\ UNCHANGED <<text, parser, dialog, sent>>

\* The refusal is passed on as a new TextParse, with a message of
\* RegisterPlayer, which may repeat the name.
Refuse ==
  /\ at = "refused"
  /\ \E message \in {<<"Oops!">>, <<"The name ">> \o typed[1] \o <<"is taken">>} :
       dialog' = Add(Add(Add(Add(<< >>, <<"logon">>, typed[1]),
                             <<"password">>, typed[2]),
                         <<"verify_password">>, typed[3]),
                     <<"extra_message">>, message)
  /\ at' = "send"
  /\ UNCHANGED <<text, parser, typed, sent>>

\* PlayerDialog::SendData; no caller adds a delayMS.
String(s) == [type |-> "STRING", value |-> s]
OnDialogRequest(data) ==
  VariantListOf(<<"OnDialogRequest">>, 0, <<String(Registration(data))>>)

Send ==
  /\ at = "send"
  /\ sent' = <<SendPacket(SVariantPacket(OnDialogRequest(dialog)))>>
  /\ at' = "shown"
  /\ UNCHANGED <<text, parser, typed, dialog>>

\* What a registered player is sent: PlaySFX, SetHasGrowID and two messages.
PlaySFX ==
  Add(Add(Add(<< >>, <<"action">>, <<"play_sfx">>),
          <<"file">>, <<"audio/success.wav">>),
      <<"delayMS">>, <<"0">>)
OnConsoleMessage(message) ==
  VariantListOf(<<"OnConsoleMessage">>, 0, <<String(message)>>)
SetHasGrowID(name, password) ==
  VariantListOf(<<"SetHasGrowID">>, 0,
                <<[type |-> "INT", value |-> 1], String(name), String(password)>>)
Welcome ==
  <<SetHasGrowID(typed[1], typed[2]),
    OnConsoleMessage(<<"A GrowID with the logon of ">> \o typed[1] \o <<" created">>),
    OnConsoleMessage(<<"Welcome">>)>>

Register ==
  /\ at = "accepted"
  /\ sent' = <<SendPacket(STextPacket(GetAsString(PlaySFX)))>>
               \o [i \in DOMAIN Welcome |-> SendPacket(SVariantPacket(Welcome[i]))]
  /\ at' = "answered"
  /\ UNCHANGED <<text, parser, typed, dialog>>

Next ==
  \/ Receive \/ Unhandled
  \/ OnRequestedName \/ OnAction \/ OnDialogReturn
  \/ ApplyAgain \/ Apply \/ Refuse \/ Send \/ Register

Spec == Init /\ [][Next]_vars

-----------------------------------------------------------------------------
(* Properties.                                                             *)

\* StringTokenize splits: what its loop collects are the longest pieces
\* without a delimiter, in order.
Pieces(s, d) ==
  {piece \in (1 .. Len(s)) \X (1 .. Len(s)) :
     LET i == piece[1]
         j == piece[2]
     IN /\ i <= j
        /\ \A k \in i .. j : s[k] # d
        /\ i = 1 \/ s[i - 1] = d
        /\ j = Len(s) \/ s[j + 1] = d}
IsSplit(tokens, s, d) ==
  LET starts == {piece[1] : piece \in Pieces(s, d)}
      before(piece) == {i \in starts : i < piece[1]}
  IN /\ Len(tokens) = Cardinality(starts)
     /\ \A piece \in Pieces(s, d) :
          tokens[Cardinality(before(piece)) + 1] = SubSeq(s, piece[1], piece[2])
TokenizeSplits ==
  /\ IsSplit(StringTokenize(text, NewLine), text, NewLine)
  /\ IsSplit(StringTokenize(text, Bar), text, Bar)

\* The event was named from the raw text and is handled from the parsed one:
\* the key a handler looks up first is then in the first line of the text,
\* and its value is read from that line, whatever else the text holds.
FirstLine == Without(SubSeq(text, 1, Find(text, NewLine, 1) - 1), Return)
OwnValue ==
  LET tokens == StringTokenize(FirstLine, Bar)
  IN IF Len(tokens) < 2 THEN << >> ELSE tokens[2]
HandlersReadOwnLine ==
  (at # "idle" /\ EventName(text) \in Events) =>
     Get(parser, EventName(text), 1) = OwnValue

\* A lookup goes wrong only by a line that has delimiters and nothing else;
\* empty lines and missing keys and values never make it.
OnlyBarsAreUndefined ==
  at = "undefined" =>
    \E i \in DOMAIN parser : ToSet(parser[i]) = {Bar}

\* What a receiver of a frame finds in it: a list by the header and what
\* VariantList's constructor reads behind it, or a text.
Payload(frame) == SubSeq(frame, 3, Len(frame) - 1)
CarriesList(frame, vList) ==
  /\ frame[1] = Cell(4, "GAME_PACKET")
  /\ frame[2].width = HeaderSize
  /\ frame[2].value.netId = vList.netId
  /\ frame[2].value.delay = vList.executionDelay
  /\ frame[2].value.dataLength = Bytes(Payload(frame))
  /\ Unpack(Payload(frame)) = vList.objects
CarriesText(frame, data) ==
  /\ frame[1] = Cell(4, "GAME_MESSAGE")
  /\ Parse(frame[2].value) = data

\* Every frame of an answer, short or long, carries what the handler sent, and
\* the length in its header is that of what follows.
FramesCarry ==
  /\ at = "shown" => CarriesList(sent[1], OnDialogRequest(dialog))
  /\ at = "answered" =>
       /\ CarriesText(sent[1], PlaySFX)
       /\ \A i \in DOMAIN Welcome : CarriesList(sent[1 + i], Welcome[i])

\* The lines of a dialog, and the fields of a line, those that are empty too.
Split(s, d) ==
  LET from[p \in 1 .. Len(s) + 2] ==
        LET cut == Find(s, d, p)
            field == <<SubSeq(s, p, cut - 1)>>
        IN IF cut > Len(s) THEN field ELSE field \o from[cut + 1]
  IN from[1]
Inputs(dialogText) ==
  LET lines == Split(dialogText, NewLine)
      rows == [i \in DOMAIN lines |-> Split(lines[i], Bar)]
      inputs == {row \in ToSet(rows) : row[1] \in {<<"add_text_input">>,
                                                 <<"add_text_input_password">>}}
  IN Selected(rows, [row \in inputs |-> row])

\* The dialog shows an applicant what the applicant typed: it went through two
\* TextParse objects and a text in which nothing is escaped, all with the same
\* delimiters, and made no field or line of its own.
DialogShowsTyped ==
  at = "shown" =>
    LET inputs == Inputs(Unpack(Payload(sent[1]))[2].value)
    IN inputs = [i \in DOMAIN Fields |->
                   <<inputs[i][1], <<Fields[i]>>, inputs[i][3], typed[i],
                     <<"18">>, << >> >>]
=============================================================================
