----------------------------- MODULE Registries -----------------------------
(***************************************************************************)
(* The registries of handlers, EventPool's own m_data and those of its     *)
(* bases ActionManager and DialogManager, and the static objects of        *)
(* EventRegister.cpp whose constructors fill them before main.  g_eventPool *)
(* is a static object of another translation unit; which of the two units  *)
(* is initialised first is the linker's choice.                            *)
(***************************************************************************)
EXTENDS Naturals, Sequences

\* The three m_data, by the texts that are looked up in them.
Registry == {"event", "action", "dialog"}

\* The static objects, in the order in which the file includes them: the
\* registry and the name each constructor registers its Run under.
Objects ==
  << [in |-> "event", name |-> "requestedName", run |-> "OnRequestedName"],
     [in |-> "event", name |-> "action", run |-> "OnAction"],
     [in |-> "action", name |-> "dialog_return", run |-> "OnDialogReturn"],
     [in |-> "dialog", name |-> "growid_apply", run |-> "OnDialogGrowIDApply"] >>

EventNames == {Objects[i].name : i \in DOMAIN Objects}
Handlers == {Objects[i].run : i \in DOMAIN Objects}

NoHandler == "NULL"
Empty == [r \in Registry |-> [n \in EventNames |-> NoHandler]]

\* The registries once every object has registered, and the order in which
\* one passes a text on to the next.
Registered ==
  [r \in Registry |-> [n \in EventNames |->
     LET mine == {i \in DOMAIN Objects : Objects[i].in = r /\ Objects[i].name = n}
     IN IF mine = {} THEN NoHandler ELSE Objects[CHOOSE i \in mine : TRUE].run]]
Passing == <<"event", "action", "dialog">>

VARIABLES poolFirst,    \* the linker's choice
          constructed,  \* the constructor of g_eventPool has run
          built,        \* how many of Objects are constructed
          data          \* the three m_data

registryVars == <<poolFirst, constructed, built, data>>

RegistryTypeOK ==
  /\ poolFirst \in BOOLEAN
  /\ constructed \in BOOLEAN
  /\ built \in 0 .. Len(Objects)
  /\ data \in [Registry -> [EventNames -> Handlers \cup {NoHandler}]]

\* Static storage is zeroed before any constructor runs.
RegistryInit ==
  /\ poolFirst \in BOOLEAN
  /\ constructed = FALSE
  /\ built = 0
  /\ data = Empty

\* Mutant: the objects are spread over several translation units, and the
\* pool's own comes somewhere between them.
ConstructPoolLate ==
  /\ ~constructed
  /\ constructed' = TRUE
  /\ data' = Empty
  /\ UNCHANGED <<poolFirst, built>>

\* EventPool::EventPool: the maps begin empty, whatever was written to them.
ConstructPool ==
  /\ ~constructed
  /\ poolFirst \/ built = Len(Objects)
  /\ constructed' = TRUE
  /\ data' = Empty
  /\ UNCHANGED <<poolFirst, built>>

\* Mutant: ACTION_EVENT and DIALOG_EVENT do not name the base whose AddEvent
\* they mean, and call EventPool's.
AddEventUnqualified(o) ==
  data' = [data EXCEPT !["event"][o.name] = o.run]

\* The AddEvent the macro of the object names.
AddEvent(o) == data' = [data EXCEPT ![o.in][o.name] = o.run]

\* The constructor of the next object.
ConstructObject ==
  /\ built < Len(Objects)
  /\ poolFirst => constructed
  /\ AddEvent(Objects[built + 1])
  /\ built' = built + 1
  /\ UNCHANGED <<poolFirst, constructed>>

\* Static initialisation is over.
Initialised == constructed /\ built = Len(Objects)

\* GetEventIfExists of each of the three.
GetEventIfExists(r, name) ==
  IF name \in EventNames THEN data[r][name] ELSE NoHandler

\* What runs for a text: the handler of its event; OnAction looks its action
\* up, OnDialogReturn its dialog.
Chain(t) ==
  LET event == GetEventIfExists("event", t.event)
      action == GetEventIfExists("action", t.action)
      dialog == GetEventIfExists("dialog", t.dialog)
      acts == event = "OnAction" /\ action # NoHandler
      shows == acts /\ action = "OnDialogReturn" /\ dialog # NoHandler
  IN CASE event = NoHandler -> << >>
       [] event # NoHandler /\ ~acts -> <<event>>
       [] acts /\ ~shows -> <<event, action>>
       [] OTHER -> <<event, action, dialog>>
=============================================================================
