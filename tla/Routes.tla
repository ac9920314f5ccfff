------------------------------- MODULE Routes -------------------------------
(***************************************************************************)
(* Selective captures of the two sources that have them: of WhatsApp       *)
(* (WhatsAppRoute) or of Messages (MessagesRoute). A collector captures    *)
(* one source into one cache: a behaviour is of one of the two.            *)
(***************************************************************************)
EXTENDS Subject, WhatsAppRoute, MessagesRoute

\* Header and event keys are WhatsApp's.
KeysRest == headerState = "rests" /\ eventState = "rests"

\* The routing has no state while another part is exercised.
RouteRests ==
  /\ native = "rests" /\ nativeEdits = 0 /\ point = "rests" /\ mediaState = "rests" /\ kept = "rests"
  /\ KeysRest

RoutesInit ==
  \/ subject = "whatsapp" /\ RouteInit
  \/ subject = "messages" /\ MessagesInit /\ KeysRest
  \/ subject \notin {"whatsapp", "messages"} /\ RouteRests

RouteStep == subject = "whatsapp" /\ RouteNext

MessagesStep == subject = "messages" /\ MessagesNext /\ UNCHANGED <<headerState, eventState>>

RoutesNext == (RouteStep \/ MessagesStep) /\ UNCHANGED subject

RoutesSpec == RoutesInit /\ [][RoutesNext]_<<subject, routeVars>>

(* Properties **************************************************************)
\* A covered point is retained as a full extraction of it would be. No unit whose text, media,
\* reply target, sender or chat changed escapes the routing, none outlives its rows; headers,
\* events and stub chats follow, though only those of changed keys are extracted again
\* (route_changes of both dependencies.py; headers.py and header_ownership.py, prepare;
\* events.py, keyed; prepared_sync.py, _whatsapp_coverage and _messages_coverage). Of stub
\* chats MessagesFollow excepts those the code gives up.
PointRetained ==
  /\ subject = "whatsapp" => UnitsFollow /\ HeadersFollow
  /\ subject = "messages" => MessagesFollow

=============================================================================
