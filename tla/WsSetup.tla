------------------------------ MODULE WsSetup -------------------------------
(***************************************************************************)
(* Building, starting and taking down the link to the CSMS when memory may *)
(* run out at any step: ws_create_server() of ws.c, which builds on        *)
(* esp_websocket_client_init(), set_uri(), set_config() and                *)
(* create_transport() of esp_websocket_client.c.                           *)
(*                                                                         *)
(* A function is the list of the things it acquires, in order.             *)
(*                                                                         *)
(* todo    what the running function has still to acquire, or failed to;   *)
(* held    what is allocated and can be reached;                           *)
(* leaked  what is allocated and can no longer be reached;                 *)
(* phase   where the link is; noLock: vSemaphoreDelete(NULL) was called;   *)
(* cred    where credentials come from: the URL, the configuration, both.  *)
(***************************************************************************)
EXTENDS Naturals, Sequences

VARIABLES todo, held, leaked, phase, noLock, cred

setVars == <<todo, held, leaked, phase, noLock, cred>>

If(cond, steps) == IF cond THEN steps ELSE <<>>

(* esp_websocket_client_set_uri(): userinfo is a local copy, "-userinfo"   *)
(* its release.                                                            *)
set_uri(c) ==
    <<"scheme", "host", "path">>
    \o If(c \in {"url", "both"}, <<"userinfo", "password", "username", "-userinfo">>)

set_config(c) ==
    If(c \in {"config", "both"}, <<"username", "password">>)
    \o If(c # "none", <<"auth">>)
    \o <<"uri", "user_agent", "headers">>

esp_websocket_client_init(c) ==
    <<"client", "event", "lock", "config">> \o set_uri(c) \o set_config(c)
    \o <<"rx_buffer", "tx_buffer", "status_bits">>

ws_create_server(c) ==
    <<"rxq">> \o esp_websocket_client_init(c) \o <<"handler", "timer", "netcb">>

create_transport == <<"list", "transport", "ws">>

esp_websocket_client_start == create_transport \o <<"task">>

ConfigStrings == {"scheme", "host", "path", "username", "password", "auth", "uri",
                  "user_agent", "headers"}
Transports == {"list", "transport", "ws"}
Client == {"client", "event", "lock", "config", "rx_buffer", "tx_buffer",
           "status_bits"} \union ConfigStrings \union Transports

(* The results ws.c does not look at. *)
Unchecked == {"rxq", "timer"}

-----------------------------------------------------------------------------
(* destroy_and_free_resources() deletes the lock whether there is one or   *)
(* not; esp_websocket_client_destroy_config() frees the strings.           *)
esp_websocket_client_destroy(h) ==
    /\ held' = h \ (Client \union {"handler"})
    /\ noLock' = (noLock \/ "lock" \notin h)

(* One more thing acquired.  A string that was set before is freed first;  *)
(* "list" is what a previous start left, freed with all that was added.    *)
Acquire ==
    /\ phase \in {"create", "start"} /\ todo # <<>>
    /\ todo' = Tail(todo)
    /\ held' = CASE Head(todo) = "-userinfo" -> held \ {"userinfo"}
                 [] Head(todo) = "list" -> (held \ Transports) \union {"list"}
                 [] OTHER -> held \union {Head(todo)}
    /\ UNCHANGED <<leaked, phase, noLock, cred>>

Skip ==
    /\ phase = "create" /\ todo # <<>> /\ Head(todo) \in Unchecked
    /\ todo' = Tail(todo)
    /\ UNCHANGED <<held, leaked, phase, noLock, cred>>

(* The error paths: of the first two steps of the client's init, of all    *)
(* the others, which destroy what there is, and of ws_create_server().     *)
CreateFails ==
    /\ phase = "create" /\ todo # <<>>
    /\ Head(todo) \notin Unchecked \union {"-userinfo"}
    /\ phase' = "failed"
    /\ leaked' = IF Head(todo) \in {"password", "username"}
                 THEN leaked \union (held \intersect {"userinfo"}) ELSE leaked
    /\ LET left == held \ {Head(todo), "userinfo"}
       IN CASE Head(todo) \in {"client", "event"} ->
                 held' = left \ {"client"} /\ UNCHANGED noLock
            [] Head(todo) = "handler" -> held' = left /\ UNCHANGED noLock
            [] OTHER -> esp_websocket_client_destroy(left)
    /\ UNCHANGED <<todo, cred>>

Created ==
    /\ phase = "create" /\ todo = <<>>
    /\ phase' = "idle"
    /\ UNCHANGED <<todo, held, leaked, noLock, cred>>

(* esp_websocket_client_start(), from enable(), every time anew. *)
Start ==
    /\ phase = "idle"
    /\ phase' = "start" /\ todo' = esp_websocket_client_start
    /\ UNCHANGED <<held, leaked, noLock, cred>>

StartFails ==
    /\ phase = "start" /\ todo # <<>>
    /\ held' = IF Head(todo) = "list" THEN held \ Transports ELSE held
    /\ phase' = "idle" /\ todo' = <<>>
    /\ UNCHANGED <<leaked, noLock, cred>>

StartDone ==
    /\ phase = "start" /\ todo = <<>>
    /\ phase' = "running"
    /\ UNCHANGED <<todo, held, leaked, noLock, cred>>

(* The task ends: esp_websocket_client_task(), and its handle. *)
TaskGone ==
    /\ phase = "running"
    /\ phase' = "idle" /\ held' = held \ {"task"}
    /\ UNCHANGED <<todo, leaked, noLock, cred>>

ws_delete_server ==
    /\ phase = "idle"
    /\ phase' = "deleted"
    /\ esp_websocket_client_destroy(held)
    /\ UNCHANGED <<todo, leaked, cred>>

SetInit ==
    /\ cred \in {"none", "url", "config", "both"}
    /\ todo = ws_create_server(cred)
    /\ held = {} /\ leaked = {}
    /\ phase = "create" /\ noLock = FALSE

SetNext == \/ Acquire \/ Skip \/ CreateFails \/ Created \/ Start \/ StartFails
           \/ StartDone \/ TaskGone \/ ws_delete_server

SetSpec == SetInit /\ [][SetNext]_setVars

(* The variables keep their types. *)
SetTypeOK ==
    /\ held \union leaked \subseteq
         Client \union Unchecked \union {"handler", "netcb", "task", "userinfo"}
    /\ phase \in {"create", "failed", "idle", "start", "running", "deleted"}
    /\ noLock \in BOOLEAN

(* Whichever step fails, everything acquired before it is released: only   *)
(* the copy of the URL's credentials is lost, when there is no memory for  *)
(* its parts, and only a failure to register the callback, which is not    *)
(* followed by a destroy, leaves the client behind.                        *)
NothingLost ==
    /\ leaked \subseteq {"userinfo"}
    /\ phase \in {"failed", "deleted"} =>
         \/ held \intersect Client = {}
         \/ phase = "failed" /\ Client \ (Transports \union ConfigStrings) \subseteq held

(* A lock that was never created is deleted only when its own creation     *)
(* was the step that failed.                                               *)
LockDeleted == noLock => phase = "failed" /\ Head(todo) = "lock"
=============================================================================
