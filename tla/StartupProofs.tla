--------------------------- MODULE StartupProofs ---------------------------
(* Proofs about Startup, for every retry policy, number of addresses,        *)
(* iterations and sessions, and every set of process ids.                    *)
EXTENDS Startup, TLAPS

Who == {"connect", "cancel"}
Replies == {"none", "N", "S"}
Config == [ssl_mode : Modes, accept_invalid_certs : BOOLEAN, allow_insecure_auth : BOOLEAN,
           password : BOOLEAN, connect_timeout : BOOLEAN]
Link == [at : {"none", "tcp", "ssl", "handshake", "up"}, addresses : 0 .. Addresses,
         timeout : BOOLEAN, reply : Replies, iterations : 0 .. MaxIterations,
         tls : BOOLEAN, cert : Certs \cup {"none"}]
Token == [at : {"none", "held", "connecting", "sent", "done"}, key : Keys, of : Nat]
Sent == [some : BOOLEAN, tls : BOOLEAN, cert : Certs \cup {"none"}, reply : Replies]

(* The counter of attempts, and why a sleep may start another one.           *)
Attempts ==
    /\ limit \in {1, max_attempts}
    /\ attempt \in 0 .. (IF limit = 0 THEN 1 ELSE limit)
    /\ pc = "sleep" => attempt < limit
    /\ pc # "config" => attempt > 0

(* The types that TypeOK leaves open.                                        *)
Types ==
    /\ config \in Config
    /\ pc \in {"config", "connecting", "auth", "sasl_first", "sasl_final", "params", "ready",
               "sleep", "failed"}
    /\ link \in [Who -> Link] /\ token \in Token /\ sent \in Sent
    /\ params \in Keys /\ key \in Keys /\ backend \in Keys
    /\ sasl \in {"none", "PLAIN", "PLUS", "verified"}
    /\ query \in BOOLEAN /\ silent \in BOOLEAN /\ turn \in BOOLEAN

(* Before connect() there is nothing that a change of config could betray.   *)
Unstarted ==
    pc = "config" => /\ \A w \in Who : link[w].at = "none"
                     /\ token.at = "none" /\ ~sent.some

(* The assumption on the constants, one by one.                              *)
LEMMA Constants ==
    /\ max_attempts \in Nat /\ Addresses \in Nat
    /\ MaxIterations \in Nat /\ MaxIterations > 0
    /\ Pids \subseteq Nat /\ 0 \notin Pids
BY StartupAssumption

(* Together they are the type invariant.                                     *)
LEMMA TypesImplyTypeOK == Types /\ Attempts => TypeOK
<1> SUFFICES ASSUME Types, Attempts PROVE TypeOK
  OBVIOUS
<1>1. \A w \in DOMAIN link :
         /\ link[w].at \in {"none", "tcp", "ssl", "handshake", "up"}
         /\ link[w].iterations \in 0 .. MaxIterations /\ link[w].addresses \in 0 .. Addresses
  BY DEF Types, Link
<1>2. {params, key, backend, token.key} \subseteq Keys
  BY DEF Types, Token
<1> QED
  BY <1>1, <1>2 DEF Types, Attempts, TypeOK, Config

(* The first state is well typed.                                            *)
LEMMA InitTypes == Init => Types /\ Attempts /\ Unstarted
<1> SUFFICES ASSUME Init PROVE Types /\ Attempts /\ Unstarted
  OBVIOUS
<1>1. link \in [Who -> Link]
  BY Constants DEF Init, Who, Link, Closed, Replies
<1>2. NoKey \in Keys
  BY DEF NoKey, Keys
<1>3. token \in Token /\ sent \in Sent
  BY <1>2 DEF Init, NoToken, Token, NothingSent, Sent, Replies
<1>4. config \in Config
  BY DEF Init, new, Config, Modes
<1>5. query \in BOOLEAN /\ silent \in BOOLEAN
  BY DEF Init
<1>6. turn \in BOOLEAN
  BY DEF Init
<1>7. Attempts
  BY Constants DEF Init, Attempts
<1>8. Unstarted
  BY DEF Init, Unstarted, Who, Closed, NoToken, NothingSent
<1> QED
  BY <1>1, <1>2, <1>3, <1>4, <1>5, <1>6, <1>7, <1>8 DEF Init, Types

(* What the steps of a connection make of a link.                            *)
LEMMA LinkUpdates ==
    ASSUME NEW l \in Link
    PROVE  /\ \A t \in BOOLEAN :
                  [l EXCEPT !.at = "tcp", !.addresses = Addresses, !.timeout = t] \in Link
           /\ [l EXCEPT !.at = "up"] \in Link /\ [l EXCEPT !.at = "ssl"] \in Link
           /\ [l EXCEPT !.at = "up", !.tls = TRUE, !.iterations = 0] \in Link
           /\ l.iterations < MaxIterations => [l EXCEPT !.iterations = @ + 1] \in Link
           /\ \A c \in Certs : [l EXCEPT !.cert = c] \in Link
<1>1. ASSUME NEW t \in BOOLEAN
      PROVE  [l EXCEPT !.at = "tcp", !.addresses = Addresses, !.timeout = t] \in Link
  <2>1. ASSUME NEW i \in 0 .. Addresses
        PROVE  [l EXCEPT !.at = "tcp", !.addresses = i, !.timeout = t] \in Link
    BY DEF Link
  <2>2. Addresses \in 0 .. Addresses
    BY Constants
  <2> QED
    BY <2>1, <2>2
<1>2. [l EXCEPT !.at = "up"] \in Link /\ [l EXCEPT !.at = "ssl"] \in Link
  BY DEF Link
<1>3. [l EXCEPT !.at = "up", !.tls = TRUE, !.iterations = 0] \in Link
  <2>1. ASSUME NEW t \in BOOLEAN, NEW i \in 0 .. MaxIterations
        PROVE  [l EXCEPT !.at = "up", !.tls = t, !.iterations = i] \in Link
    BY DEF Link
  <2>2. 0 \in 0 .. MaxIterations
    BY Constants
  <2> QED
    BY <2>1, <2>2
<1>4. ASSUME l.iterations < MaxIterations PROVE [l EXCEPT !.iterations = @ + 1] \in Link
  BY <1>4, Constants DEF Link
<1>5. ASSUME NEW c \in Certs PROVE [l EXCEPT !.cert = c] \in Link
  BY DEF Link
<1> QED
  BY <1>1, <1>2, <1>3, <1>4, <1>5

(* Links that the actions make.                                              *)
LEMMA LinkTypes ==
    /\ Closed \in Link
    /\ \A t \in BOOLEAN : build_pg_transport(t) \in Link
    /\ \A l : apply_tls(l) \in Link
<1>1. Closed \in Link
  BY Constants DEF Closed, Link, Replies
<1>2. ASSUME NEW t \in BOOLEAN PROVE build_pg_transport(t) \in Link
  BY <1>1, LinkUpdates DEF build_pg_transport
<1>3. ASSUME NEW l PROVE apply_tls(l) \in Link
  BY <1>1, LinkUpdates DEF apply_tls
<1> QED
  BY <1>1, <1>2, <1>3

(* One link changes, the types stay.                                         *)
LEMMA StepTypes ==
    ASSUME Types, NEW w \in Who, NEW l \in Link, Step(w, l)
    PROVE  link' \in [Who -> Link] /\ pc' = pc /\ token' = token
BY DEF Types, Step, Who

(* An attempt that fails is followed by another only within the limit.       *)
LEMMA FailTypes ==
    ASSUME Types, Attempts, NEW w \in Who, Fail(w), UNCHANGED <<limit, attempt>>,
           pc # "config"
    PROVE  /\ link' \in [Who -> Link] /\ link'[w] = Closed
           /\ \A v \in Who : v # w => link'[v] = link[v]
           /\ token' \in Token /\ Attempts'
           /\ token' = token \/ (w = "cancel" /\ token' = [token EXCEPT !.at = "done"])
           /\ pc' = pc \/ pc' \in {"sleep", "failed"}
           /\ w = "cancel" => pc' = pc
<1>1. link' \in [Who -> Link] /\ link'[w] = Closed /\ \A v \in Who : v # w => link'[v] = link[v]
  BY LinkTypes DEF Types, Fail, Who
<1>2. CASE w = "connect"
  <2>1. retry /\ token' = token
    BY <1>2 DEF Fail
  <2>2. Attempts' /\ pc' \in {"sleep", "failed"}
    BY <2>1, Constants DEF retry, Attempts
  <2> QED
    BY <1>1, <1>2, <2>1, <2>2 DEF Types
<1>3. CASE w = "cancel"
  <2>1. token' = [token EXCEPT !.at = "done"] /\ pc' = pc
    BY <1>3 DEF Fail
  <2>2. token' \in Token
    BY <2>1 DEF Types, Token
  <2>3. Attempts'
    BY <2>1 DEF Attempts
  <2> QED
    BY <1>1, <1>3, <2>1, <2>2, <2>3
<1> QED
  BY <1>2, <1>3 DEF Who

(* Every step keeps the types.                                               *)
LEMMA TypesStep == Types /\ Attempts /\ Unstarted /\ [Next]_vars => Types' /\ Attempts'
<1> SUFFICES ASSUME Types, Attempts, Unstarted, [Next]_vars PROVE Types' /\ Attempts'
  OBVIOUS
<1>c. "connect" \in Who /\ "cancel" \in Who /\ NoKey \in Keys
  BY DEF Who, NoKey, Keys
<1>s. ASSUME NEW n \in Nat, Start(n)
      PROVE  /\ link' \in [Who -> Link] /\ pc' = "connecting" /\ attempt' = n
             /\ sasl' = "none" /\ turn' \in BOOLEAN /\ params' \in Keys
  <2>1. build_pg_transport(config.connect_timeout) \in Link
    BY LinkTypes DEF Types, Config
  <2> QED
    BY <1>c, <1>s, <2>1, Constants DEF Start, Types, StartParams
<1>e. ASSUME NEW w \in Who, Send(w)
      PROVE  sent' \in Sent
  BY <1>e DEF Send, Types, Link, Sent
<1>1. CASE Configure
  <2>b. ASSUME NEW c \in Builders(config) PROVE c \in Config
    <3>1. CASE \E m \in Modes : c = [config EXCEPT !.ssl_mode = m]
      BY <3>1 DEF Types, Config
    <3>2. CASE \E on \in BOOLEAN : c = use_tls(config, on)
      BY <3>2 DEF use_tls, Types, Config, Modes
    <3>3. CASE c \in {[config EXCEPT !.accept_invalid_certs = TRUE],
                      [config EXCEPT !.allow_insecure_auth = TRUE],
                      [config EXCEPT !.password = TRUE], [config EXCEPT !.connect_timeout = TRUE]}
      BY <3>3 DEF Types, Config
    <3> QED
      BY <3>1, <3>2, <3>3 DEF Builders
  <2>p. ASSUME NEW c \in from_uri PROVE c \in Config
    BY DEF from_uri, Config
  <2>1. config' \in Config
    BY <1>1, <2>b, <2>p DEF Configure, from_key_value, from_env
  <2> QED
    BY <1>1, <2>1 DEF Configure, session, Types, Attempts
<1>2. ASSUME NEW n \in {1, max_attempts}, connect(n) PROVE Types' /\ Attempts'
  <2>1. 1 \in Nat /\ Start(1)
    BY <1>2 DEF connect
  <2>2. Attempts'
    BY <1>2, <2>1, <1>s, Constants DEF connect, Attempts
  <2> QED
    BY <1>2, <2>1, <2>2, <1>s DEF connect, Types
<1>3. CASE reconnect
  <2>1. 1 \in Nat /\ Start(1)
    BY <1>3 DEF reconnect
  <2>2. Attempts'
    BY <1>3, <2>1, <1>s, Constants DEF reconnect, Attempts
  <2> QED
    BY <1>3, <2>1, <2>2, <1>s DEF reconnect, Types
<1>4. CASE sleep
  <2>1. attempt + 1 \in Nat /\ Start(attempt + 1)
    BY <1>4, Constants DEF sleep, Attempts
  <2>2. Attempts'
    BY <1>4, <2>1, <1>s, Constants DEF sleep, Attempts
  <2> QED
    BY <1>4, <2>1, <2>2, <1>s DEF sleep, Types
<1>5. CASE Abandon
  BY <1>5, <1>c, LinkTypes DEF Abandon, session, Types, Attempts
<1>v. ASSUME NEW w \in Who, link[w].at # "none" PROVE pc # "config"
  BY <1>v DEF Unstarted
<1>t. ASSUME NEW w \in Who, Fail(w), pc # "config",
             UNCHANGED <<config, limit, attempt, session, silent, sent>>
      PROVE  Types' /\ Attempts'
  BY <1>t, FailTypes DEF session, Types
<1>u. ASSUME NEW w \in Who, NEW l \in Link, Step(w, l),
             UNCHANGED <<config, limit, attempt, session, silent, sent>>
      PROVE  Types' /\ Attempts'
  BY <1>u, StepTypes DEF session, Types, Attempts
<1>6. ASSUME NEW w \in Who, TcpConnect(w) PROVE Types' /\ Attempts'
  <2>1. [link[w] EXCEPT !.addresses = @ - 1] \in Link \/ link[w].addresses = 0
    BY Constants DEF Types, Link
  <2>2. pc # "config"
    BY <1>6, <1>v DEF TcpConnect
  <2> QED
    BY <1>6, <1>t, <1>u, <2>1, <2>2, LinkTypes DEF TcpConnect
<1>7. ASSUME NEW w \in Who, connect_with_timeout(w) PROVE Types' /\ Attempts'
  BY <1>7, <1>t, <1>v DEF connect_with_timeout
<1>8. ASSUME NEW w \in Who, negotiate_tls(w) PROVE Types' /\ Attempts'
  <2>1. /\ [link[w] EXCEPT !.at = "handshake", !.reply = "S"] \in Link
        /\ [link[w] EXCEPT !.at = "up", !.reply = "N"] \in Link
    BY DEF Types, Link, Replies
  <2>2. pc # "config"
    BY <1>8, <1>v DEF negotiate_tls
  <2> QED
    BY <1>8, <1>t, <1>u, <2>1, <2>2 DEF negotiate_tls, NotSupported
<1>9. ASSUME NEW w \in Who, handshake(w) PROVE Types' /\ Attempts'
  <2> DEFINE l == link[w]
             n == [l EXCEPT !.iterations = @ + 1]
  <2>0. l \in Link
    BY DEF Types
  <2>1. l.iterations < MaxIterations => n \in Link /\ \A c \in Certs : [n EXCEPT !.cert = c] \in Link
    <3> HIDE DEF l, n
    <3>1. l.iterations < MaxIterations => n \in Link
      BY <2>0, LinkUpdates DEF n
    <3> QED
      BY <3>1, LinkUpdates
  <2>2. [l EXCEPT !.at = "up", !.tls = TRUE, !.iterations = 0] \in Link
    <3> HIDE DEF l
    <3> QED
      BY <2>0, LinkUpdates
  <2>3. pc # "config"
    BY <1>9, <1>v DEF handshake
  <2> QED
    BY <1>9, <1>t, <1>u, <2>1, <2>2, <2>3 DEF handshake
<1>10. CASE startup
  <2>1. sent' \in Sent
    BY <1>10, <1>c, <1>e DEF startup
  <2>2. backend' \in Keys
    BY <1>10, Constants DEF startup, Types, Keys, NoKey
  <2> QED
    BY <1>10, <2>1, <2>2 DEF startup, Types, Attempts
<1>11. CASE \E what \in {"password", "md5"} : auth(what)
  <2>1. sent' \in Sent
    BY <1>11, <1>c, <1>e DEF auth
  <2>2. turn' \in BOOLEAN
    BY <1>11 DEF auth, Types
  <2> QED
    BY <1>11, <2>1, <2>2 DEF auth, Types, Attempts
<1>12. ASSUME NEW mechanisms, NEW binding, scram(mechanisms, binding) PROVE Types' /\ Attempts'
  <2>1. turn' \in BOOLEAN
    BY <1>12 DEF scram, Types
  <2>2. sasl' \in {"PLAIN", "PLUS"}
    BY <1>12 DEF scram, select_scram_mechanism
  <2> QED
    BY <1>12, <2>1, <2>2 DEF scram, Types, Attempts
<1>13. CASE scram_update
  BY <1>13, <1>c, <1>e DEF scram_update, session, Types, Attempts
<1>14. CASE scram_finish \/ authenticate
  BY <1>14 DEF scram_finish, authenticate, session, Types, Attempts
<1>15. CASE AuthError
  BY <1>15, <1>c, <1>t DEF AuthError, AuthFails
<1>16. CASE read_startup_params
  <2>1. CASE Fail("connect") /\ UNCHANGED <<params, key, query, turn>>
    BY <1>16, <2>1, <1>c, <1>t DEF read_startup_params, session
  <2>2. CASE turn' = ~turn /\ params' \in {params, backend}
             /\ UNCHANGED <<pc, delay, link, token, key, query>>
    <3>1. turn' \in BOOLEAN
      BY <2>2 DEF Types
    <3> QED
      BY <1>16, <2>2, <3>1 DEF read_startup_params, Types, Attempts
  <2>3. CASE /\ pc' = "ready" /\ key' = params /\ query' = FALSE
             /\ params' = NoKey /\ turn' = FALSE /\ UNCHANGED <<delay, link, token>>
    <3>1. turn' \in BOOLEAN
      BY <2>3
    <3>2. query' \in BOOLEAN
      BY <2>3
    <3> QED
      BY <1>16, <2>3, <3>1, <3>2, <1>c DEF read_startup_params, Types, Attempts
  <2> QED
    BY <1>16, <2>1, <2>2, <2>3 DEF read_startup_params
<1>17. CASE Query
  BY <1>17 DEF Query, Types, Attempts
<1>18. CASE cancel_token
  <2>1. token' \in Token
    BY <1>18, Constants DEF cancel_token, Types, Token, Keys, NoKey
  <2> QED
    BY <1>18, <2>1 DEF cancel_token, session, Types, Attempts
<1>19. CASE cancel_with_timeout
  <2>1. token' \in Token
    BY <1>19 DEF cancel_with_timeout, Types, Token
  <2>2. link' \in [Who -> Link]
    BY <1>19, <1>c, LinkTypes DEF cancel_with_timeout, build_cancel_transport, Types
  <2> QED
    BY <1>19, <2>1, <2>2 DEF cancel_with_timeout, session, Types, Attempts
<1>20. CASE cancel
  <2>1. token' \in Token
    BY <1>20 DEF cancel, Types, Token
  <2>2. link' \in [Who -> Link] /\ sent' \in Sent
    BY <1>20, <1>c, <1>e, LinkTypes DEF cancel, Types
  <2> QED
    BY <1>20, <2>1, <2>2 DEF cancel, session, Types, Attempts
<1>21. CASE Interrupt
  <2>1. token' \in Token
    BY <1>21 DEF Interrupt, Types, Token
  <2>2. query' \in BOOLEAN
    BY <1>21 DEF Interrupt, Types
  <2> QED
    BY <1>21, <2>1, <2>2 DEF Interrupt, Types, Attempts
<1>22. CASE Silence
  BY <1>22 DEF Silence, session, Types, Attempts
<1>23. CASE UNCHANGED vars
  BY <1>23 DEF vars, session, Types, Attempts
<1> QED
  BY <1>c, <1>1, <1>2, <1>3, <1>4, <1>5, <1>6, <1>7, <1>8, <1>9, <1>10, <1>11, <1>12, <1>13, <1>14,
     <1>15, <1>16, <1>17, <1>18, <1>19, <1>20, <1>21, <1>22, <1>23
     DEF Next, Connecting, Transport, Authentication

-----------------------------------------------------------------------------
(* Once connect() has been called there is no way back.                      *)
LEMMA UnstartedStep == Types /\ Unstarted /\ [Next]_vars => Unstarted'
<1> SUFFICES ASSUME Types, Unstarted, [Next]_vars, pc' = "config" PROVE Unstarted'
  BY DEF Unstarted
<1>v. ASSUME NEW w \in Who, link[w].at # "none" PROVE pc # "config"
  BY <1>v DEF Unstarted
<1>f. ASSUME NEW w \in Who, Fail(w) PROVE pc # "config" => pc' # "config"
  BY <1>f DEF Fail, retry, Who
<1>1. pc = "config"
  <2>1. ASSUME NEW w \in Who, Transport(w) PROVE pc = "config"
    BY <2>1, <1>f DEF Transport, TcpConnect, connect_with_timeout, negotiate_tls, NotSupported,
                      handshake, Step
  <2>2. CASE Authentication
    BY <2>2, <1>f DEF Authentication, startup, authenticate, AuthError, AuthFails, scram_update,
                      scram_finish, auth, scram, read_startup_params, Who
  <2>3. CASE UNCHANGED vars
    BY <2>3 DEF vars
  <2> QED
    BY <2>1, <2>2, <2>3 DEF Next, Connecting, Configure, connect, reconnect, Start, sleep, Abandon,
          Query, cancel_token, cancel_with_timeout, cancel, Interrupt, Silence, Who
<1>2. CASE Configure
  BY <1>2 DEF Configure, Unstarted
<1>3. CASE UNCHANGED vars
  BY <1>3 DEF vars, Unstarted
<1>4. ~connect(1) /\ ~connect(max_attempts) /\ ~reconnect /\ ~sleep
  BY <1>1 DEF connect, Start, reconnect, sleep
<1>5. ~Authentication
  BY <1>1 DEF Authentication, startup, authenticate, AuthError, scram_update, scram_finish, auth,
              scram, read_startup_params
<1>6. \A w \in Who : ~Transport(w)
  BY <1>1, <1>v DEF Transport, TcpConnect, connect_with_timeout, negotiate_tls, handshake
<1>7. ~Abandon /\ ~Query /\ ~cancel_token /\ ~cancel_with_timeout /\ ~Interrupt /\ ~Silence
  BY <1>1 DEF Abandon, Query, cancel_token, cancel_with_timeout, Interrupt, Silence, Unstarted
<1>8. ~cancel
  BY <1>1, <1>v DEF cancel, Who
<1> QED
  BY <1>2, <1>3, <1>4, <1>5, <1>6, <1>7, <1>8 DEF Next, Connecting, Who

(* The type invariant: in particular no retry exceeds its policy's attempts, *)
(* and no handshake its limit of iterations.                                 *)
THEOREM StartupTypeCorrect == Spec => []TypeOK
<1>1. Init => Types /\ Attempts /\ Unstarted
  BY InitTypes
<1>2. Types /\ Attempts /\ Unstarted /\ [Next]_vars => (Types /\ Attempts /\ Unstarted)'
  BY TypesStep, UnstartedStep
<1>3. Types /\ Attempts /\ Unstarted => TypeOK
  BY TypesImplyTypeOK
<1> QED
  BY <1>1, <1>2, <1>3, PTL DEF Spec

-----------------------------------------------------------------------------
(* Which links a configuration trusts: a plain one, or a TLS one whose       *)
(* certificate its verifier accepts.                                         *)
Trusted(r) ==
    IF r.tls
    THEN \/ r.cert = "good"
         \/ r.cert = "wrong_host" /\ config.ssl_mode = "VerifyCa"
         \/ config.ssl_mode = "Require" \/ config.accept_invalid_certs
    ELSE \/ config.ssl_mode = "Disable"
         \/ config.ssl_mode = "Prefer" /\ r.reply = "N"

(* How far a link has come says what is known of it.                         *)
LinkOK(l) ==
    /\ l.at = "up" => Trusted(l)
    /\ l.at = "handshake" => ~l.tls /\ l.cert \in build_rustls_config \cup {"none"}
    /\ l.at \in {"none", "tcp", "ssl"} => ~l.tls /\ l.cert = "none"

LinksOK == \A w \in Who : LinkOK(link[w])

(* From the StartupMessage on, the link of connect() stands.                 *)
AuthUp ==
    pc \in {"auth", "sasl_first", "sasl_final", "params", "ready"} => link["connect"].at = "up"

(* A verifier accepts only certificates that the mode trusts.                *)
LEMMA Verified ==
    ASSUME NEW l, l.tls, l.cert \in build_rustls_config
    PROVE  Trusted(l)
<1>1. CASE InsecureNoVerify
  BY <1>1 DEF InsecureNoVerify, Trusted
<1>2. CASE ~InsecureNoVerify
  BY <1>2 DEF verification_policy, build_rustls_config, Trusted, Certs
<1> QED
  BY <1>1, <1>2

(* Every step leaves links that the configuration trusts once they are up.   *)
LEMMA LinksStep == Types /\ Unstarted /\ LinksOK /\ [Next]_vars => LinksOK'
<1> SUFFICES ASSUME Types, Unstarted, LinksOK, [Next]_vars PROVE LinksOK'
  OBVIOUS
<1>c. "connect" \in Who /\ "cancel" \in Who
  BY DEF Who
<1>k. ASSUME NEW w \in Who, NEW l, LinkOK(l), link' = [link EXCEPT ![w] = l], config' = config
      PROVE  LinksOK'
  <2>1. \A v \in Who : link'[v] = l \/ link'[v] = link[v]
    BY <1>k DEF Types
  <2>2. build_rustls_config' = build_rustls_config
    BY <1>k DEF build_rustls_config, verification_policy, InsecureNoVerify
  <2>3. ASSUME NEW v \in Who PROVE LinkOK(link[v])'
    <3>1. CASE link'[v] = l
      BY <1>k, <2>2, <3>1 DEF LinkOK, Trusted
    <3>2. CASE link'[v] = link[v]
      BY <1>k, <2>2, <3>2 DEF LinksOK, LinkOK, Trusted
    <3> QED
      BY <2>1, <3>1, <3>2
  <2> QED
    BY <2>3 DEF LinksOK
<1>u. ASSUME link' = link, config' = config PROVE LinksOK'
  BY <1>u DEF LinksOK, LinkOK, Trusted, build_rustls_config, verification_policy, InsecureNoVerify
<1>z. LinkOK(Closed) /\ \A t \in BOOLEAN : LinkOK(build_pg_transport(t))
  <2>1. LinkOK(Closed)
    BY DEF LinkOK, Closed
  <2>2. ASSUME NEW t \in BOOLEAN PROVE LinkOK(build_pg_transport(t))
    BY DEF LinkOK, build_pg_transport, Closed
  <2> QED
    BY <2>1, <2>2
<1>f. ASSUME NEW w \in Who, Fail(w), config' = config PROVE LinksOK'
  BY <1>f, <1>k, <1>z DEF Fail
<1>1. CASE Configure
  <2>1. \A w \in Who : link'[w] = link[w] /\ link[w].at = "none"
    BY <1>1 DEF Configure, Unstarted
  <2> QED
    BY <2>1 DEF LinksOK, LinkOK
<1>2. ASSUME NEW n, Start(n), config' = config PROVE LinksOK'
  BY <1>2, <1>c, <1>k, <1>z DEF Start, Types, Config
<1>3. CASE Abandon
  BY <1>3, <1>c, <1>k, <1>z DEF Abandon
<1>4. ASSUME NEW w \in Who, TcpConnect(w) PROVE LinksOK'
  <2>1. LinkOK([link[w] EXCEPT !.addresses = @ - 1])
    BY <1>4 DEF TcpConnect, LinksOK, LinkOK, Types, Link
  <2>2. LinkOK(apply_tls(link[w]))
    BY DEF LinkOK, Trusted, apply_tls, Closed
  <2> QED
    BY <1>4, <1>f, <1>k, <2>1, <2>2 DEF TcpConnect, Step
<1>5. ASSUME NEW w \in Who, connect_with_timeout(w) PROVE LinksOK'
  BY <1>5, <1>f DEF connect_with_timeout
<1>6. ASSUME NEW w \in Who, negotiate_tls(w) PROVE LinksOK'
  <2>1. LinkOK([link[w] EXCEPT !.at = "handshake", !.reply = "S"])
    BY <1>6 DEF negotiate_tls, LinksOK, LinkOK, Types, Link
  <2>2. config.ssl_mode = "Prefer" => LinkOK([link[w] EXCEPT !.at = "up", !.reply = "N"])
    BY <1>6 DEF negotiate_tls, LinksOK, LinkOK, Trusted, Types, Link
  <2> QED
    BY <1>6, <1>f, <1>k, <2>1, <2>2 DEF negotiate_tls, NotSupported, Step
<1>7. ASSUME NEW w \in Who, handshake(w) PROVE LinksOK'
  <2> DEFINE l == link[w]
             n == [l EXCEPT !.iterations = @ + 1]
             u == [l EXCEPT !.at = "up", !.tls = TRUE, !.iterations = 0]
  <2>0. l \in Link /\ LinkOK(l) /\ l.at = "handshake"
    BY <1>7 DEF handshake, Types, LinksOK
  <2>1. l.cert # "none" => LinkOK(u)
    <3>1. l.cert # "none" => l.cert \in build_rustls_config
      BY <2>0 DEF LinkOK
    <3>2. u.tls /\ u.at = "up" /\ u.cert = l.cert
      BY <2>0 DEF Link
    <3> HIDE DEF u
    <3> QED
      BY <3>1, <3>2, Verified DEF LinkOK
  <2>2. LinkOK(n)
    BY <2>0 DEF LinkOK, Link
  <2>3. ASSUME NEW c \in Certs, verify_server_cert(c) PROVE LinkOK([n EXCEPT !.cert = c])
    BY <2>0, <2>3 DEF LinkOK, Link, verify_server_cert
  <2> QED
    BY <1>7, <1>f, <1>k, <2>1, <2>2, <2>3 DEF handshake, Step
<1>8. CASE Authentication
  BY <1>8, <1>c, <1>f, <1>u DEF Authentication, startup, authenticate, AuthError, AuthFails,
      scram_update, scram_finish, auth, scram, read_startup_params
<1>9. CASE cancel_with_timeout \/ cancel
  BY <1>9, <1>c, <1>k, <1>z DEF cancel_with_timeout, build_cancel_transport, cancel
<1>10. CASE Query \/ cancel_token \/ Interrupt \/ Silence
  BY <1>10, <1>u DEF Query, cancel_token, Interrupt, Silence
<1>11. CASE UNCHANGED vars
  BY <1>11, <1>u DEF vars
<1> QED
  BY <1>c, <1>1, <1>2, <1>3, <1>4, <1>5, <1>6, <1>7, <1>8, <1>9, <1>10, <1>11
     DEF Next, Connecting, Transport, connect, reconnect, sleep

(* The link of connect() goes down only with the attempt.                    *)
LEMMA AuthUpStep == Types /\ AuthUp /\ [Next]_vars => AuthUp'
<1> SUFFICES ASSUME Types, AuthUp, [Next]_vars PROVE AuthUp'
  OBVIOUS
<1>c. "connect" \in Who /\ "cancel" \in Who
  BY DEF Who
<1>u. ASSUME link' = link, pc' = pc PROVE AuthUp'
  BY <1>u DEF AuthUp
<1>o. ASSUME NEW l, link' = [link EXCEPT !["cancel"] = l], pc' = pc PROVE AuthUp'
  BY <1>o, <1>c DEF Types, AuthUp
<1>f. ASSUME Fail("connect") PROVE AuthUp'
  BY <1>f DEF Fail, retry, AuthUp
<1>1. CASE Configure \/ Query \/ cancel_token \/ Interrupt \/ Silence
  BY <1>1, <1>u DEF Configure, Query, cancel_token, Interrupt, Silence
<1>2. ASSUME NEW n, Start(n) PROVE AuthUp'
  BY <1>2 DEF Start, AuthUp
<1>3. CASE Abandon
  BY <1>3 DEF Abandon, AuthUp
<1>4. CASE Transport("connect")
  <2>1. pc \notin {"auth", "sasl_first", "sasl_final", "params", "ready"}
    BY <1>4 DEF Transport, TcpConnect, connect_with_timeout, negotiate_tls, handshake, AuthUp
  <2> QED
    BY <1>4, <1>f, <2>1 DEF Transport, TcpConnect, connect_with_timeout, negotiate_tls,
        NotSupported, handshake, Step, AuthUp
<1>5. CASE Transport("cancel")
  <2>1. ASSUME Fail("cancel") PROVE AuthUp'
    BY <2>1, <1>o DEF Fail
  <2>2. ASSUME NEW l, Step("cancel", l) PROVE AuthUp'
    BY <2>2, <1>o DEF Step
  <2> QED
    BY <1>5, <2>1, <2>2 DEF Transport, TcpConnect, connect_with_timeout, negotiate_tls,
        NotSupported, handshake
<1>6. CASE startup
  BY <1>6 DEF startup, AuthUp
<1>7. CASE \/ authenticate \/ scram_update \/ scram_finish
           \/ \E what \in {"password", "md5"} : auth(what)
           \/ \E m \in SUBSET {"PLAIN", "PLUS"}, b \in BOOLEAN : scram(m, b)
  BY <1>7 DEF authenticate, scram_update, scram_finish, auth, scram, session, AuthUp
<1>8. CASE AuthError
  BY <1>8, <1>f DEF AuthError, AuthFails
<1>9. CASE read_startup_params
  BY <1>9, <1>f, <1>u DEF read_startup_params, AuthUp
<1>10. CASE cancel_with_timeout \/ cancel
  BY <1>10, <1>o DEF cancel_with_timeout, cancel
<1>11. CASE UNCHANGED vars
  BY <1>11, <1>u DEF vars
<1> QED
  BY <1>1, <1>2, <1>3, <1>4, <1>5, <1>6, <1>7, <1>8, <1>9, <1>10, <1>11
     DEF Next, Connecting, Authentication, connect, reconnect, sleep

(* A step changes the configuration before anything was sent, or not at all; *)
(* what it sends, it sends over a link that is up.                           *)
LEMMA SentStep ==
    ASSUME Types, Unstarted, AuthUp, [Next]_vars
    PROVE  \/ sent' = sent /\ (config' = config \/ ~sent.some)
           \/ /\ config' = config
              /\ \E w \in Who : Send(w) /\ link[w].at = "up"
<1>c. "connect" \in Who /\ "cancel" \in Who
  BY DEF Who
<1>1. CASE Configure
  BY <1>1 DEF Configure, Unstarted
<1>2. CASE startup \/ scram_update \/ cancel
  BY <1>2, <1>c DEF startup, scram_update, cancel, AuthUp
<1>3. CASE \E what \in {"password", "md5"} : auth(what)
  BY <1>3, <1>c DEF auth, AuthUp
<1>4. CASE Transport("connect") \/ Transport("cancel")
  BY <1>4 DEF Transport, TcpConnect, connect_with_timeout, negotiate_tls, handshake
<1>5. CASE \/ authenticate \/ AuthError \/ scram_finish \/ read_startup_params
           \/ \E m \in SUBSET {"PLAIN", "PLUS"}, b \in BOOLEAN : scram(m, b)
  BY <1>5 DEF authenticate, AuthError, AuthFails, scram_finish, read_startup_params, scram
<1>6. CASE \/ connect(1) \/ connect(max_attempts) \/ reconnect \/ sleep \/ Abandon \/ Query
           \/ cancel_token \/ cancel_with_timeout \/ Interrupt \/ Silence \/ UNCHANGED vars
  BY <1>6 DEF connect, reconnect, sleep, Abandon, Query, cancel_token, cancel_with_timeout,
      Interrupt, Silence, vars
<1> QED
  BY <1>1, <1>2, <1>3, <1>4, <1>5, <1>6 DEF Next, Connecting, Authentication

(* What the results below share.                                             *)
Base == Types /\ Attempts /\ Unstarted /\ AuthUp

(* It is inductive by itself.                                                *)
LEMMA BaseInvariant == Spec => []Base
<1>1. Init => Base
  BY InitTypes DEF Init, AuthUp, Base
<1>2. Base /\ [Next]_vars => Base'
  BY TypesStep, UnstartedStep, AuthUpStep DEF Base
<1> QED
  BY <1>1, <1>2, PTL DEF Spec

(* Nothing crosses a link that the configured mode does not permit: TLS is   *)
(* skipped only where the mode and this server's answer allow it, and every  *)
(* certificate passed the verifier that build_rustls_config chose.           *)
THEOREM StartupTrustRespected == Spec => []TrustRespected
<1>1. Init => LinksOK /\ TrustRespected
  BY DEF Init, Closed, NothingSent, LinksOK, LinkOK, Who, TrustRespected
<1>2. Base /\ LinksOK /\ TrustRespected /\ [Next]_vars => (LinksOK /\ TrustRespected)'
  <2> SUFFICES ASSUME Base, LinksOK, TrustRespected, [Next]_vars PROVE TrustRespected'
    BY LinksStep DEF Base
  <2>1. CASE sent' = sent /\ (config' = config \/ ~sent.some)
    BY <2>1 DEF TrustRespected
  <2>2. ASSUME config' = config, NEW w \in Who, Send(w), link[w].at = "up"
        PROVE  TrustRespected'
    <3>1. Trusted(link[w])
      BY <2>2 DEF LinksOK, LinkOK
    <3>2. sent'.tls = link[w].tls /\ sent'.cert = link[w].cert /\ sent'.reply = link[w].reply
      BY <2>2 DEF Send
    <3> QED
      BY <2>2, <3>1, <3>2 DEF Trusted, TrustRespected
  <2> QED
    BY <2>1, <2>2, SentStep DEF Base
<1> QED
  BY <1>1, <1>2, BaseInvariant, PTL DEF Spec

-----------------------------------------------------------------------------
(* The exchange that an attempt is in, and the key it has read so far.       *)
Progress ==
    /\ pc = "connecting" => sasl = "none" /\ params = NoKey
    /\ pc \in {"auth", "params", "ready"} => sasl \in {"none", "verified"}
    /\ pc \in {"auth", "sasl_first", "sasl_final", "params"} => params \in {NoKey, backend}
    /\ pc = "ready" => key \in {NoKey, backend}

(* Before the first session there is nothing to cancel, and a token keeps    *)
(* the key of the session that it was made for.                              *)
TokenKept ==
    /\ backend = NoKey => /\ pc \in {"config", "connecting", "sleep", "failed"}
                          /\ token.at = "none"
    /\ token.key = NoKey \/ token.key.secret = token.of

(* What steps other than those of connect() itself leave alone.              *)
Kept == UNCHANGED <<params, key, backend, sasl>>

(* An attempt fails, or a connection of cancel() does.                       *)
LEMMA FailKeeps ==
    ASSUME Types, Progress, TokenKept, NEW w \in Who, Fail(w), Kept,
           w = "connect" => pc \notin {"config", "ready"},
           w = "cancel" => token.at # "none"
    PROVE  Progress' /\ TokenKept'
<1>1. CASE w = "connect"
  <2>1. pc' \in {"sleep", "failed"} /\ token' = token
    BY <1>1 DEF Fail, retry
  <2> QED
    BY <2>1 DEF Kept, Progress, TokenKept
<1>2. CASE w = "cancel"
  <2>1. pc' = pc /\ token' = [token EXCEPT !.at = "done"]
    BY <1>2 DEF Fail
  <2>2. token'.key = token.key /\ token'.of = token.of
    BY <2>1 DEF Types, Token
  <2> QED
    BY <1>2, <2>1, <2>2 DEF Kept, Progress, TokenKept
<1> QED
  BY <1>1, <1>2 DEF Who

(* A connection of cancel() exists for a token only.                         *)
CancelLink == link["cancel"].at # "none" => token.at # "none"

(* Only cancel_with_timeout opens that connection, and tokens stay.          *)
LEMMA CancelLinkStep == Types /\ CancelLink /\ [Next]_vars => CancelLink'
<1> SUFFICES ASSUME Types, CancelLink, [Next]_vars PROVE CancelLink'
  OBVIOUS
<1>c. "connect" \in Who /\ "cancel" \in Who
  BY DEF Who
<1>u. ASSUME token' = token, link'["cancel"] = link["cancel"] PROVE CancelLink'
  BY <1>u DEF CancelLink
<1>o. ASSUME NEW l, link' = [link EXCEPT !["connect"] = l], token' = token PROVE CancelLink'
  BY <1>o, <1>u, <1>c DEF Types
<1>f. ASSUME NEW w \in Who, Fail(w) PROVE CancelLink'
  <2>1. CASE w = "connect"
    BY <1>f, <1>o, <2>1 DEF Fail
  <2>2. CASE w = "cancel"
    BY <1>f, <1>c, <2>2 DEF Fail, CancelLink, Types, Closed
  <2> QED
    BY <2>1, <2>2 DEF Who
<1>s. ASSUME NEW w \in Who, NEW l, Step(w, l), link[w].at # "none" PROVE CancelLink'
  <2>1. CASE w = "connect"
    BY <1>s, <1>o, <2>1 DEF Step
  <2>2. CASE w = "cancel"
    BY <1>s, <2>2 DEF Step, CancelLink
  <2> QED
    BY <2>1, <2>2 DEF Who
<1>1. ASSUME NEW w \in Who, Transport(w) PROVE CancelLink'
  BY <1>1, <1>f, <1>s DEF Transport, TcpConnect, connect_with_timeout, negotiate_tls, NotSupported,
      handshake
<1>2. CASE Authentication
  BY <1>2, <1>c, <1>f, <1>u DEF Authentication, startup, authenticate, AuthError, AuthFails,
      scram_update, scram_finish, auth, scram, read_startup_params
<1>3. CASE connect(1) \/ connect(max_attempts) \/ reconnect \/ sleep \/ Abandon
  BY <1>3, <1>o DEF connect, reconnect, sleep, Start, Abandon
<1>4. CASE cancel_token
  BY <1>4 DEF cancel_token, CancelLink
<1>5. CASE cancel_with_timeout
  BY <1>5 DEF cancel_with_timeout, CancelLink, Types, Token
<1>6. CASE cancel \/ Interrupt
  BY <1>6 DEF cancel, Interrupt, CancelLink, Types, Token
<1>7. CASE Configure \/ Query \/ Silence \/ UNCHANGED vars
  BY <1>7, <1>u DEF Configure, Query, Silence, vars
<1> QED
  BY <1>c, <1>1, <1>2, <1>3, <1>4, <1>5, <1>6, <1>7 DEF Next, Connecting

(* Every step keeps what is known of keys, tokens and the exchange.          *)
LEMMA ProgressStep ==
    Base /\ CancelLink /\ Progress /\ TokenKept /\ [Next]_vars => Progress' /\ TokenKept'
<1> SUFFICES ASSUME Base, CancelLink, Progress, TokenKept, [Next]_vars
             PROVE  Progress' /\ TokenKept'
  OBVIOUS
<1> USE DEF Base
<1>c. "connect" \in Who /\ "cancel" \in Who
  BY DEF Who
<1>u. ASSUME Kept, UNCHANGED <<pc, token>> PROVE Progress' /\ TokenKept'
  BY <1>u DEF Kept, Progress, TokenKept
<1>1. ASSUME NEW n, Start(n), UNCHANGED <<key, token, backend>>
      PROVE  Progress' /\ TokenKept'
  BY <1>1 DEF Start, StartParams, Progress, TokenKept
<1>2. CASE Abandon
  BY <1>2 DEF Abandon, session, Progress, TokenKept
<1>3. ASSUME NEW w \in Who, Transport(w) PROVE Progress' /\ TokenKept'
  <2>1. link[w].at \in {"tcp", "ssl", "handshake"} /\ Kept
    BY <1>3 DEF Transport, TcpConnect, connect_with_timeout, negotiate_tls, handshake, session, Kept
  <2>2. CASE w = "connect" /\ pc = "ready"
    \* No step of connect() is left once it has returned.
    BY <1>3, <2>1, <2>2 DEF AuthUp
  <2>3. CASE ~(w = "connect" /\ pc = "ready")
    <3>1. ASSUME Fail(w) PROVE Progress' /\ TokenKept'
      BY <2>1, <2>3, <3>1, FailKeeps DEF Unstarted, CancelLink, Who
    <3>2. ASSUME NEW l, Step(w, l) PROVE Progress' /\ TokenKept'
      BY <1>u, <2>1, <3>2 DEF Step
    <3> QED
      BY <1>3, <3>1, <3>2 DEF Transport, TcpConnect, connect_with_timeout, negotiate_tls,
          NotSupported, handshake
  <2> QED
    BY <2>2, <2>3
<1>4. CASE startup
  <2>1. backend' # NoKey
    BY <1>4, Constants DEF startup, NoKey
  <2> QED
    BY <1>4, <2>1 DEF startup, Progress, TokenKept
<1>5. CASE \/ authenticate \/ scram_update \/ scram_finish
           \/ \E what \in {"password", "md5"} : auth(what)
           \/ \E m \in SUBSET {"PLAIN", "PLUS"}, b \in BOOLEAN : scram(m, b)
  BY <1>5 DEF authenticate, scram_update, scram_finish, auth, scram, session, Progress, TokenKept
<1>6. CASE AuthError
  BY <1>6, <1>c, FailKeeps DEF AuthError, AuthFails, session, Kept
<1>7. CASE read_startup_params
  <2>1. CASE Fail("connect") /\ UNCHANGED <<params, key, query, turn>>
    BY <1>7, <1>c, <2>1, FailKeeps DEF read_startup_params, Kept
  <2>2. CASE params' \in {params, backend} /\ UNCHANGED <<pc, delay, link, token, key, query>>
    BY <1>7, <2>2 DEF read_startup_params, Progress, TokenKept
  <2>3. CASE pc' = "ready" /\ key' = params /\ UNCHANGED token
    BY <1>7, <2>3 DEF read_startup_params, Progress, TokenKept
  <2> QED
    BY <1>7, <2>1, <2>2, <2>3 DEF read_startup_params
<1>8. CASE cancel_token
  BY <1>8 DEF cancel_token, session, Progress, TokenKept
<1>9. CASE cancel_with_timeout \/ cancel \/ Interrupt
  <2>1. /\ token'.key = token.key /\ token'.of = token.of
        /\ Kept /\ pc' = pc
    BY <1>9 DEF cancel_with_timeout, cancel, Interrupt, session, Kept, Types, Token
  <2>2. token.at # "none"
    BY <1>9 DEF cancel_with_timeout, cancel, Interrupt, CancelLink
  <2> QED
    BY <2>1, <2>2 DEF Kept, Progress, TokenKept
<1>10. CASE Configure \/ Query \/ Silence \/ UNCHANGED vars
  BY <1>10, <1>u DEF Configure, Query, Silence, vars, session, Kept
<1> QED
  BY <1>c, <1>1, <1>2, <1>3, <1>4, <1>5, <1>6, <1>7, <1>8, <1>9, <1>10
     DEF Next, Connecting, Authentication, connect, reconnect, sleep

(* The invariant of the three results below.                                 *)
Inv == Base /\ CancelLink /\ Progress /\ TokenKept

(* It holds in every reachable state.                                        *)
LEMMA Invariant == Spec => []Inv
<1>1. Init => CancelLink /\ Progress /\ TokenKept
  BY DEF Init, Closed, NoToken, CancelLink, Progress, TokenKept
<1>2. Inv /\ [Next]_vars => CancelLink' /\ Progress' /\ TokenKept'
  BY CancelLinkStep, ProgressStep DEF Inv, Base
<1>3. Base /\ CancelLink /\ Progress /\ TokenKept <=> Inv
  BY DEF Inv
<1> QED
  BY <1>1, <1>2, <1>3, BaseInvariant, PTL DEF Spec

(* Once a server has begun a SASL exchange, connect() returns a connection   *)
(* only after the server has proved that it knows the password, in whatever  *)
(* order and number the messages came.                                       *)
THEOREM StartupServerProved == Spec => []ServerProved
<1>1. Inv => ServerProved
  BY DEF Inv, Progress, ServerProved
<1> QED
  BY <1>1, Invariant, PTL

(* The key in server_params is that of the session which the connection is   *)
(* in, or none: the retries and reconnect() leave no key behind.             *)
THEOREM StartupKeyIsCurrent == Spec => []KeyIsCurrent
<1>1. Inv => KeyIsCurrent
  BY DEF Inv, Progress, KeyIsCurrent
<1> QED
  BY <1>1, Invariant, PTL

(* A CancelToken interrupts a query of its own session or nothing, even when *)
(* reconnect() has made another session with the same process id.            *)
THEOREM StartupCancelStaysWithSession == Spec => []CancelStaysWithSession
<1>1. Init => CancelStaysWithSession
  BY DEF Init, CancelStaysWithSession
<1>2. Inv /\ CancelStaysWithSession /\ [Next]_vars => CancelStaysWithSession'
  <2> SUFFICES ASSUME Inv, CancelStaysWithSession, [Next]_vars PROVE CancelStaysWithSession'
    OBVIOUS
  <2>1. CASE Interrupt
    <3>1. CASE hits' = hits
      BY <3>1 DEF CancelStaysWithSession
    <3>2. CASE CancelKey = backend /\ hits' = hits \cup {<<token.of, backend.secret>>}
      <4>1. backend # NoKey
        BY <2>1 DEF Interrupt, Inv, TokenKept
      <4>2. token.of = backend.secret
        BY <3>2, <4>1 DEF CancelKey, Inv, TokenKept
      <4> QED
        BY <3>2, <4>2 DEF CancelStaysWithSession
    <3> QED
      BY <2>1, <3>1, <3>2 DEF Interrupt
  <2>2. CASE ~Interrupt
    <3>1. hits' = hits
      <4>1. ASSUME NEW w, Transport(w) PROVE hits' = hits
        BY <4>1 DEF Transport, TcpConnect, connect_with_timeout, negotiate_tls, handshake
      <4>2. CASE Authentication
        BY <4>2 DEF Authentication, startup, authenticate, AuthError, AuthFails, scram_update,
            scram_finish, auth, scram, read_startup_params
      <4>3. CASE UNCHANGED vars
        BY <4>3 DEF vars
      <4> QED
        BY <2>2, <4>1, <4>2, <4>3 DEF Next, Connecting, Configure, connect, reconnect, sleep,
            Abandon, Query, cancel_token, cancel_with_timeout, cancel, Silence
    <3> QED
      BY <3>1 DEF CancelStaysWithSession
  <2> QED
    BY <2>1, <2>2
<1> QED
  BY <1>1, <1>2, Invariant, PTL DEF Spec
=============================================================================
