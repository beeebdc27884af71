------------------------------ MODULE Startup ------------------------------
(***************************************************************************)
(* From a Config to a Connection that is ready: the TCP connection, the    *)
(* negotiation of TLS, the authentication and the startup parameters, the  *)
(* retries of connect_with_retry, and CancelToken, which opens a second    *)
(* connection in the same way (config.rs, connection.rs, transport/,       *)
(* auth/, reconnect/retry.rs, cancel.rs).                                  *)
(*                                                                         *)
(* The server may send any message at any time, close the connection, or   *)
(* fall silent for good.  Every await is a point where the caller may drop *)
(* the future.  Certificates and signatures are what their checks tell     *)
(* apart.                                                                  *)
(***************************************************************************)
EXTENDS Naturals

CONSTANTS
    Pids,           \* process ids of backends; the system reuses them
    max_attempts,   \* of the RetryPolicy
    initial_delay, max_delay,
    U32Max,         \* the largest multiplier of the delay
    MaxIterations,  \* MAX_HANDSHAKE_ITERATIONS
    Addresses,      \* how many addresses the host name resolves to
    MaxSessions     \* bound: sessions after which reconnect() is called no more

ASSUME StartupAssumption ==
    /\ {max_attempts, initial_delay, max_delay, Addresses} \subseteq Nat
    /\ {U32Max, MaxIterations, MaxSessions} \subseteq Nat \ {0}
    /\ Pids \subseteq Nat \ {0} /\ Pids # {}

VARIABLES
    config,
    pc,        \* the await of connect(), "config" before it, "ready" or "failed" after it
    limit,     \* attempts that the call makes: 1 for connect()
    attempt, delay,
    link,      \* the connections of connect() and of cancel()
    params,    \* the key in read_startup_params
    key,       \* the key in the Connection's server_params
    token,     \* a CancelToken and how far its cancel() is
    backend,   \* the server's session
    query,     \* whether it runs a query
    silent,    \* the server sends nothing any more
    turn,      \* history: changes with every message that ends no phase
    sasl,      \* history: the SASL exchange of this attempt
    sent,      \* history: the link that carried the last message
    hits       \* history: session of a token, session that its cancel() interrupted

session == <<params, key, backend, query, turn, sasl>>
vars == <<config, pc, limit, attempt, delay, link, token, session, silent, sent, hits>>

-----------------------------------------------------------------------------
(* Config: new, then builder methods.                                        *)
Modes == {"Disable", "Prefer", "Require", "VerifyCa", "VerifyFull"}
new == [ssl_mode |-> "VerifyFull", accept_invalid_certs |-> FALSE,
        allow_insecure_auth |-> FALSE, password |-> FALSE, connect_timeout |-> FALSE]

use_tls(c, on) ==
    CASE ~on -> [c EXCEPT !.ssl_mode = "Disable"]
      [] on /\ c.ssl_mode = "Disable" -> [c EXCEPT !.ssl_mode = "VerifyFull"]
      [] OTHER -> c

Builders(c) ==
    {[c EXCEPT !.ssl_mode = m] : m \in Modes}
    \cup {use_tls(c, on) : on \in BOOLEAN}
    \cup {[c EXCEPT !.accept_invalid_certs = TRUE], [c EXCEPT !.allow_insecure_auth = TRUE],
          [c EXCEPT !.password = TRUE], [c EXCEPT !.connect_timeout = TRUE]}

(* What can be read from a connection string or the environment: neither     *)
(* accept_invalid_certs nor allow_insecure_auth can.                         *)
from_uri == [ssl_mode : Modes, accept_invalid_certs : {FALSE}, allow_insecure_auth : {FALSE},
             password : BOOLEAN, connect_timeout : BOOLEAN]
from_key_value == from_uri
from_env       == from_uri

Configure ==
    /\ pc = "config"
    /\ config' \in Builders(config) \cup from_uri \cup from_key_value \cup from_env
    /\ UNCHANGED <<pc, limit, attempt, delay, link, token, session, silent, sent, hits>>

-----------------------------------------------------------------------------
NoKey  == [pid |-> 0, secret |-> 0]
Closed == [at |-> "none", addresses |-> 0, timeout |-> FALSE, reply |-> "none",
           iterations |-> 0, tls |-> FALSE, cert |-> "none"]
NothingSent == [some |-> FALSE, tls |-> FALSE, cert |-> "none", reply |-> "none"]
NoToken == [at |-> "none", key |-> NoKey, of |-> 0]

Init ==
    /\ config = new /\ pc = "config" /\ limit = 1 /\ attempt = 0 /\ delay = 0
    /\ link = [w \in {"connect", "cancel"} |-> Closed]
    /\ params = NoKey /\ key = NoKey /\ token = NoToken
    /\ backend = NoKey /\ query = FALSE /\ silent = FALSE
    /\ turn = FALSE /\ sasl = "none" /\ sent = NothingSent /\ hits = {}

(* ServerParams::default.                                                    *)
(* Mutant: the parameters of the connection before.                          *)
StartParamsKept == key

StartParams == NoKey

build_pg_transport(timeout) ==
    [Closed EXCEPT !.at = "tcp", !.addresses = Addresses, !.timeout = timeout]

Start(n) ==
    /\ pc' = "connecting" /\ attempt' = n
    /\ link' = [link EXCEPT !["connect"] = build_pg_transport(config.connect_timeout)]
    /\ sasl' = "none" /\ turn' = FALSE /\ params' = StartParams

(* Connection::connect and connect_with_retry.                               *)
connect(n) ==
    /\ pc = "config" /\ limit' = n /\ Start(1) /\ delay' = 0
    /\ UNCHANGED <<config, key, token, backend, query, silent, sent, hits>>

(* The ready connection breaks, and reconnect() builds another.              *)
reconnect ==
    /\ pc = "ready" /\ backend.secret < MaxSessions
    /\ limit' = 1 /\ Start(1) /\ delay' = 0 /\ query' = FALSE
    /\ UNCHANGED <<config, key, token, backend, silent, sent, hits>>

(* RetryPolicy.                                                              *)
Power(n) == 2 ^ n
Least(m, n) == IF m < n THEN m ELSE n

(* Mutant: the multiplier wraps around.                                      *)
delay_for_attemptWraps(n) ==
    Least(initial_delay * (Power(n - 1) % (U32Max + 1)), max_delay)

delay_for_attempt(n) == Least(initial_delay * Least(Power(n - 1), U32Max), max_delay)

(* Mutant: one attempt more.                                                 *)
retryInclusive ==
    IF attempt > limit THEN pc' = "failed" /\ UNCHANGED delay
    ELSE pc' = "sleep" /\ delay' = delay_for_attempt(attempt)

(* What the loop does with the error of an attempt, whatever it is.          *)
retry ==
    IF attempt >= limit THEN pc' = "failed" /\ UNCHANGED delay
    ELSE pc' = "sleep" /\ delay' = delay_for_attempt(attempt)

sleep ==
    /\ pc = "sleep" /\ Start(attempt + 1)
    /\ UNCHANGED <<config, limit, delay, key, token, backend, query, silent, sent, hits>>

(* An attempt fails: its transport is dropped.                               *)
Fail(w) ==
    /\ link' = [link EXCEPT ![w] = Closed]
    /\ CASE w = "connect" -> retry /\ UNCHANGED token
         [] w = "cancel"  -> token' = [token EXCEPT !.at = "done"] /\ UNCHANGED <<pc, delay>>

(* The caller drops the future of connect().                                 *)
Abandon ==
    /\ pc \notin {"config", "ready", "failed"} /\ pc' = "failed"
    /\ link' = [link EXCEPT !["connect"] = Closed]
    /\ UNCHANGED <<config, limit, attempt, delay, token, session, silent, sent, hits>>

-----------------------------------------------------------------------------
(* A TCP connection to one of the addresses, within the timeout, and then    *)
(* apply_tls.                                                                *)
Step(w, l) == link' = [link EXCEPT ![w] = l] /\ UNCHANGED <<pc, delay, token>>

apply_tls(l) == IF config.ssl_mode = "Disable" THEN [Closed EXCEPT !.at = "up"]
                ELSE [Closed EXCEPT !.at = "ssl"]

TcpConnect(w) ==
    /\ link[w].at = "tcp" /\ ~silent
    /\ \/ link[w].addresses = 0 /\ Fail(w)
       \/ link[w].addresses > 0 /\ Step(w, [link[w] EXCEPT !.addresses = @ - 1])
       \/ link[w].addresses > 0 /\ Step(w, apply_tls(link[w]))
    /\ UNCHANGED <<config, limit, attempt, session, silent, sent, hits>>

connect_with_timeout(w) ==
    /\ link[w].at = "tcp" /\ link[w].timeout /\ Fail(w)
    /\ UNCHANGED <<config, limit, attempt, session, silent, sent, hits>>

(* negotiate_tls: the answer to SSLRequest.                                  *)
(* Mutant: a mode that requires TLS goes on without.                         *)
NotSupportedTaken(w, l) == Step(w, [l EXCEPT !.at = "up", !.reply = "N"])

NotSupported(w, l) ==
    IF config.ssl_mode = "Prefer" THEN Step(w, [l EXCEPT !.at = "up", !.reply = "N"]) ELSE Fail(w)

negotiate_tls(w) ==
    /\ link[w].at = "ssl" /\ ~silent
    /\ \/ Step(w, [link[w] EXCEPT !.at = "handshake", !.reply = "S"])
       \/ NotSupported(w, link[w])
       \/ Fail(w)     \* an error, another byte, end of file
    /\ UNCHANGED <<config, limit, attempt, session, silent, sent, hits>>

Certs == {"good", "wrong_host", "untrusted"}
InsecureNoVerify == config.accept_invalid_certs \/ config.ssl_mode = "Require"
verification_policy == CASE InsecureNoVerify -> "InsecureNoVerify"
                         [] ~InsecureNoVerify /\ config.ssl_mode = "VerifyCa" -> "VerifyCaOnly"
                         [] OTHER -> "VerifyFull"

(* build_rustls_config chooses a verifier: the certificates it accepts.      *)
build_rustls_config ==
    CASE verification_policy = "InsecureNoVerify" -> Certs
      [] verification_policy = "VerifyCaOnly"     -> Certs \ {"untrusted"}
      [] verification_policy = "VerifyFull"       -> {"good"}

verify_server_cert(c) == c \in build_rustls_config

(* Mutant: the counter starts again and again.                               *)
handshakeUnlimited(w) ==
    /\ link[w].at = "handshake" /\ ~silent
    /\ LET l == link[w]
           n == [l EXCEPT !.iterations = (@ + 1) % MaxIterations]
       IN  \/ l.cert # "none" /\ Step(w, [l EXCEPT !.at = "up", !.tls = TRUE, !.iterations = 0])
           \/ /\ l.cert = "none"
              /\ \/ Step(w, n)
                 \/ \E c \in Certs : verify_server_cert(c) /\ Step(w, [n EXCEPT !.cert = c])
                 \/ Fail(w)
    /\ UNCHANGED <<config, limit, attempt, session, silent, sent, hits>>

(* TlsTransport::handshake: one iteration.  The limit is tested before       *)
(* is_handshaking.                                                           *)
handshake(w) ==
    /\ link[w].at = "handshake" /\ ~silent
    /\ LET l == link[w]
           n == [l EXCEPT !.iterations = @ + 1]
       IN  \/ l.iterations = MaxIterations /\ Fail(w)
           \/ /\ l.iterations < MaxIterations /\ l.cert # "none"
              /\ Step(w, [l EXCEPT !.at = "up", !.tls = TRUE, !.iterations = 0])
           \/ /\ l.iterations < MaxIterations /\ l.cert = "none"
              /\ \/ Step(w, n)
                 \/ \E c \in Certs : verify_server_cert(c) /\ Step(w, [n EXCEPT !.cert = c])
                 \/ Fail(w)
    /\ UNCHANGED <<config, limit, attempt, session, silent, sent, hits>>

-----------------------------------------------------------------------------
(* Authentication.  Of what is sent, the link that carried it is remembered. *)
Send(w) ==
    sent' = [some |-> TRUE, tls |-> link[w].tls, cert |-> link[w].cert, reply |-> link[w].reply]

(* connect: StartupMessage, upon which the server makes a session.           *)
startup ==
    /\ pc = "connecting" /\ link["connect"].at = "up"
    /\ Send("connect") /\ pc' = "auth"
    /\ \E p \in Pids : backend' = [pid |-> p, secret |-> backend.secret + 1]
    /\ UNCHANGED <<config, limit, attempt, delay, link, params, key, token, query, silent, turn,
                   sasl, hits>>

AuthFails ==
    /\ ~silent /\ Fail("connect")
    /\ UNCHANGED <<config, limit, attempt, session, silent, sent, hits>>

(* Whether the password may be sent: at all, and in a form that can be read  *)
(* or replayed.                                                              *)
MayBeSent(what) ==
    /\ what \in {"password", "md5"} => link["connect"].tls \/ config.allow_insecure_auth
    /\ config.password

(* The transport knows tls-server-end-point for most certificates.           *)
select_scram_mechanism(mechanisms, binding) ==
    CASE "PLUS" \in mechanisms /\ binding -> "PLUS"
      [] ~("PLUS" \in mechanisms /\ binding) /\ "PLAIN" \in mechanisms -> "PLAIN"
      [] OTHER -> "none"

(* authenticate, by message: a request for a password ...                    *)
auth(what) ==
    /\ pc = "auth" /\ ~silent /\ MayBeSent(what)
    /\ Send("connect") /\ turn' = ~turn
    /\ UNCHANGED <<config, pc, limit, attempt, delay, link, token, params, key, backend, query,
                   silent, sasl, hits>>

(* ... for SASL, with some mechanisms ...                                    *)
scram(mechanisms, binding) ==
    /\ pc = "auth" /\ ~silent /\ MayBeSent("proof")
    /\ binding => link["connect"].tls
    /\ select_scram_mechanism(mechanisms, binding) # "none"
    /\ pc' = "sasl_first" /\ turn' = ~turn
    /\ sasl' = select_scram_mechanism(mechanisms, binding)
    /\ UNCHANGED <<config, limit, attempt, delay, link, token, params, key, backend, query,
                   silent, sent, hits>>

(* AuthenticationSaslContinue: the proof.                                    *)
scram_update ==
    /\ pc = "sasl_first" /\ ~silent /\ pc' = "sasl_final"
    /\ Send("connect")
    /\ UNCHANGED <<config, limit, attempt, delay, link, token, session, silent, hits>>

(* Mutant: AuthenticationOk ends the exchange, too.                          *)
scram_finishEarly ==
    /\ pc = "sasl_final" /\ ~silent /\ pc' = "params" /\ UNCHANGED sasl
    /\ UNCHANGED <<config, limit, attempt, delay, link, token, params, key, backend, query, turn,
                   silent, sent, hits>>

(* AuthenticationSaslFinal with the signature that is expected.              *)
scram_finish ==
    /\ pc = "sasl_final" /\ ~silent /\ pc' = "auth" /\ sasl' = "verified"
    /\ UNCHANGED <<config, limit, attempt, delay, link, token, params, key, backend, query, turn,
                   silent, sent, hits>>

(* ... AuthenticationOk ...                                                  *)
authenticate ==
    /\ pc = "auth" /\ ~silent /\ pc' = "params"
    /\ UNCHANGED <<config, limit, attempt, delay, link, token, session, silent, sent, hits>>

(* ... and everything else, at any of these points: ErrorResponse, a message *)
(* that does not belong here, end of file, a request that is refused, a      *)
(* signature that is wrong.                                                  *)
AuthError == pc \in {"auth", "sasl_first", "sasl_final"} /\ AuthFails

(* read_startup_params: BackendKeyData, other messages, ReadyForQuery, an    *)
(* error.                                                                    *)
read_startup_params ==
    /\ pc = "params" /\ ~silent
    /\ \/ /\ turn' = ~turn /\ params' \in {params, backend}
          /\ UNCHANGED <<pc, delay, link, token, key, query>>
       \/ /\ pc' = "ready" /\ key' = params /\ query' = FALSE
          /\ params' = NoKey /\ turn' = FALSE /\ UNCHANGED <<delay, link, token>>
       \/ Fail("connect") /\ UNCHANGED <<params, key, query, turn>>
    /\ UNCHANGED <<config, limit, attempt, backend, silent, sasl, sent, hits>>

-----------------------------------------------------------------------------
(* Queries, and CancelToken in another task.                                 *)
Query ==
    /\ pc = "ready" /\ ~silent /\ query' = ~query
    /\ UNCHANGED <<config, pc, limit, attempt, delay, link, token, params, key, backend, silent,
                   turn, sasl, sent, hits>>

cancel_token ==
    /\ pc = "ready" /\ token.at = "none"
    /\ token' = [at |-> "held", key |-> key, of |-> backend.secret]
    /\ UNCHANGED <<config, pc, limit, attempt, delay, link, session, silent, sent, hits>>

build_cancel_transport(timeout) == build_pg_transport(timeout)

cancel_with_timeout ==
    /\ token.at = "held" /\ token' = [token EXCEPT !.at = "connecting"]
    /\ \E timeout \in BOOLEAN : link' = [link EXCEPT !["cancel"] = build_cancel_transport(timeout)]
    /\ UNCHANGED <<config, pc, limit, attempt, delay, session, silent, sent, hits>>

(* CancelRequest, and the connection is closed; no one waits for the server. *)
cancel ==
    /\ link["cancel"].at = "up"
    /\ Send("cancel")
    /\ link' = [link EXCEPT !["cancel"] = Closed]
    /\ token' = [token EXCEPT !.at = "sent"]
    /\ UNCHANGED <<config, pc, limit, attempt, delay, session, silent, hits>>

(* Mutant: the key that the connection has now.                              *)
CancelKeyNow == key

CancelKey == token.key

(* The server interrupts what the session with that key does.                *)
Interrupt ==
    /\ token.at = "sent" /\ token' = [token EXCEPT !.at = "done"]
    /\ IF CancelKey = backend /\ query
       THEN hits' = hits \cup {<<token.of, backend.secret>>} /\ query' = FALSE
       ELSE UNCHANGED <<hits, query>>
    /\ UNCHANGED <<config, pc, limit, attempt, delay, link, params, key, backend, silent, turn,
                   sasl, sent>>

Silence ==
    /\ ~silent /\ pc \notin {"config", "ready", "failed"} /\ silent' = TRUE
    /\ UNCHANGED <<config, pc, limit, attempt, delay, link, token, session, sent, hits>>

-----------------------------------------------------------------------------
Transport(w) == TcpConnect(w) \/ connect_with_timeout(w) \/ negotiate_tls(w) \/ handshake(w)

Authentication ==
    \/ startup \/ authenticate \/ AuthError \/ scram_update \/ scram_finish
    \/ \E what \in {"password", "md5"} : auth(what)
    \/ \E mechanisms \in SUBSET {"PLAIN", "PLUS"}, binding \in BOOLEAN :
           scram(mechanisms, binding)
    \/ read_startup_params

Connecting == Transport("connect") \/ Authentication \/ sleep

Next ==
    \/ Configure \/ connect(1) \/ connect(max_attempts) \/ reconnect
    \/ Connecting \/ Abandon
    \/ Query \/ cancel_token \/ cancel_with_timeout \/ Transport("cancel") \/ cancel \/ Interrupt
    \/ Silence

Spec == Init /\ [][Next]_vars

(* The runtime polls connect(), timers fire, the system gives up on an       *)
(* address, and a server that is not silent sends something.                 *)
FairSpec == Spec /\ WF_vars(Connecting)

-----------------------------------------------------------------------------
Keys == [pid : Pids, secret : Nat] \cup {NoKey}

(* Type correctness; retry() makes at most as many attempts as the policy    *)
(* says, and at least one.                                                   *)
TypeOK ==
    /\ config \in [ssl_mode : Modes, accept_invalid_certs : BOOLEAN, allow_insecure_auth : BOOLEAN,
                   password : BOOLEAN, connect_timeout : BOOLEAN]
    /\ pc \in {"config", "connecting", "auth", "sasl_first", "sasl_final", "params", "ready",
               "sleep", "failed"}
    /\ limit \in {1, max_attempts} /\ attempt \in 0 .. (IF limit = 0 THEN 1 ELSE limit)
    /\ \A w \in DOMAIN link :
           /\ link[w].at \in {"none", "tcp", "ssl", "handshake", "up"}
           /\ link[w].iterations \in 0 .. MaxIterations /\ link[w].addresses \in 0 .. Addresses
    /\ {params, key, backend, token.key} \subseteq Keys
    /\ query \in BOOLEAN /\ silent \in BOOLEAN /\ turn \in BOOLEAN

(* Nothing, the request of a cancel() included, is sent over a link that the *)
(* mode does not permit: a plain one only if TLS is disabled, or preferred   *)
(* and refused by the server on that very connection; a TLS one only with a  *)
(* certificate that the mode accepts.                                        *)
TrustRespected ==
    sent.some =>
        IF sent.tls
        THEN \/ sent.cert = "good"
             \/ sent.cert = "wrong_host" /\ config.ssl_mode = "VerifyCa"
             \/ config.ssl_mode = "Require" \/ config.accept_invalid_certs
        ELSE \/ config.ssl_mode = "Disable"
             \/ config.ssl_mode = "Prefer" /\ sent.reply = "N"

(* A connection whose server began a SASL exchange is used only if the       *)
(* server's signature was verified, however many requests came.              *)
ServerProved == pc \in {"params", "ready"} => sasl \in {"none", "verified"}

(* A ready connection has the key of its own session, or none; never one of  *)
(* a session before it.                                                      *)
KeyIsCurrent == pc = "ready" => key \in {NoKey, backend}

(* A CancelToken interrupts queries of the session it was made for only,     *)
(* whatever reconnect() does meanwhile and although process ids are reused.  *)
CancelStaysWithSession == \A h \in hits : h[1] = h[2]

(* The delays between the attempts of a call grow until they have reached    *)
(* their ceiling, which max_delay bounds, and then stay there.               *)
DelaysGrow ==
    [][pc # "sleep" /\ pc' = "sleep" =>
           /\ delay' <= max_delay
           /\ \/ delay' > delay
              \/ delay' = delay /\ delay = Least(initial_delay * U32Max, max_delay)]_vars

(* The server sends one more message that takes connect() no further.        *)
Talk == turn' # turn /\ pc' \in {"auth", "sasl_first", "params"}

(* connect() ends, with two exceptions.  connect_timeout covers the TCP      *)
(* connection only (connection.rs:125): once that stands, a server that      *)
(* falls silent holds the call for ever, and so does one that goes on asking *)
(* for the password or sending parameters, as no loop of auth/mod.rs counts. *)
ConnectEnds ==
    \/ (pc \notin {"config", "ready", "failed"}) ~>
           \/ pc \in {"ready", "failed"}
           \/ silent /\ (link["connect"].at # "tcp" \/ ~link["connect"].timeout)
    \/ []<><<Talk>>_vars
=============================================================================
