------------------------------- MODULE Ingress -------------------------------
(***************************************************************************)
(* IngressService on one Docker host: the row of IngressConfig, the routes *)
(* and certificate rows, and what they stand for on the host: the nginx    *)
(* container, its configuration and the network it shares with the exposed *)
(* containers.                                                             *)
(*                                                                         *)
(* Each operation is one transaction on the pool's only connection, so it  *)
(* is one step for everything that reads or writes rows.  Its calls to     *)
(* Docker are not undone when the transaction is.                          *)
(***************************************************************************)
EXTENDS Integers

CONSTANTS Hostnames,
          TlsHost,     \* the hostname exposed with a certificate
          Containers,  \* containers that can be exposed
          MaxBoxes,    \* bound: nginx containers created
          MaxCerts,    \* bound: certificate rows inserted
          MaxFaults,   \* bound: operations in which calls to Docker fail
          None

ASSUME IngressAssumption ==
  /\ TlsHost \in Hostnames /\ None \notin Containers
  /\ MaxBoxes \in Nat /\ MaxCerts \in Nat /\ MaxFaults \in Nat

VARIABLES
  config,     \* the row of IngressConfig
  target,     \* IngressRoute: the container a hostname leads to
  certs,      \* IngressCertificate: the rows of TlsHost in order of insertion
  inserted,   \* how many there have been
  box,        \* the nginx container; id 0 stands for none
  boxes,      \* how many there have been
  network,    \* the ingress network exists
  connected,  \* containers in it
  faults,     \* history: in how many operations a call to Docker has failed
  silent      \* history: disabled while Docker answered nothing, not enabled since

rows == <<config, target, certs, inserted>>
host == <<box, boxes, network, connected>>
ingress == <<rows, host, faults, silent>>

CertIds == 1 .. MaxCerts
Cert == [status : {"PENDING", "ACTIVE", "ERROR"}, issue : Nat]
Config == [status : {"ABSENT", "ENABLED", "DISABLED", "ERROR"}, box : Nat, net : BOOLEAN]

ASSUME NoneAssumption == None \notin Cert /\ None \notin Config

Routes == [Hostnames -> Containers \cup {None}]

\* What a configuration file says: where hostnames lead, and whether TlsHost
\* has a server with ssl_certificate.
Conf == [target : Routes, tls : BOOLEAN]

\* chain is the issue the certificate's file is of, key the one that the key's file
\* fits: 0 if the file is absent, or fits none.
Box == [id : Nat, chain : Nat, key : Nat, file : Conf, serves : Conf]

IngressTypeOK ==
  /\ config \in Config /\ target \in Routes
  /\ certs \in [CertIds -> Cert \cup {None}] /\ inserted \in 0 .. MaxCerts
  /\ box \in Box /\ boxes \in Nat /\ box.id <= boxes /\ config.box <= boxes
  /\ network \in BOOLEAN /\ connected \subseteq Containers
  /\ ~network => connected = {}
  /\ config.status = "ENABLED" => config.box # 0 /\ config.net
  /\ faults \in 0 .. MaxFaults /\ silent \in BOOLEAN

NoRoutes == [h \in Hostnames |-> None]
NoConf == [target |-> NoRoutes, tls |-> FALSE]
Image(n) == [id |-> n, chain |-> 0, key |-> 0, file |-> NoConf, serves |-> NoConf]
NoBox == Image(0)

Init ==
  /\ config = [status |-> "ABSENT", box |-> 0, net |-> FALSE]
  /\ target = NoRoutes
  /\ certs = [c \in CertIds |-> None] /\ inserted = 0
  /\ box = NoBox /\ boxes = 0
  /\ network = FALSE /\ connected = {}
  /\ faults = 0 /\ silent = FALSE

-----------------------------------------------------------------------------
(* The configuration and nginx.                                            *)

Rows(cs) == {c \in CertIds : cs[c] # None}

\* certMap keeps the first of a hostname's rows.
First(cs) == CHOOSE c \in Rows(cs) : \A d \in Rows(cs) : c <= d
HasActive(cs) == Rows(cs) # {} /\ cs[First(cs)].status = "ACTIVE"

\* generateFullConfig: a server with TLS only if the certificate is ACTIVE.
Generated(routes, cs) ==
  [target |-> routes, tls |-> routes[TlsHost] # None /\ HasActive(cs)]

\* nginx refuses a file that names a container it cannot resolve, or a
\* certificate whose files are not there or do not fit.
Loadable(b, there) ==
  /\ \A h \in Hostnames : b.file.target[h] \in there \cup {None}
  /\ b.file.tls => b.chain # 0 /\ b.chain = b.key

\* A file that is refused leaves what is served as it was: neither nginx -t nor
\* kill -HUP is looked at.
Written(b, conf) == [b EXCEPT !.file = conf]
Reloaded(b, there) == IF Loadable(b, there) THEN [b EXCEPT !.serves = b.file] ELSE b

\* Bounded: calls fail at any time, but not for ever.
Faults(fault) ==
  /\ fault => faults < MaxFaults
  /\ faults' = IF fault THEN faults + 1 ELSE faults

\* A command can be executed in the container with this id.
Executes(id) == id # 0 /\ box.id = id

\* regenerateAndApplyNginxConfig
Apply(conf) ==
  /\ Executes(config.box)
  /\ box' = Reloaded(Written(box, conf), connected')

\* It throws: before, between or after the commands, or without a container.
ApplyFails(conf) ==
  /\ Faults(TRUE)
  /\ box' \in IF Executes(config.box)
              THEN {box, Written(box, conf), Reloaded(Written(box, conf), connected')}
              ELSE {box}

-----------------------------------------------------------------------------
(* Enabling and disabling.                                                 *)

EnableSucceeds ==
  /\ config.status # "ENABLED" /\ boxes < MaxBoxes
  /\ boxes' = boxes + 1
  /\ config' = [status |-> "ENABLED", box |-> boxes', net |-> TRUE]
  /\ network' = TRUE
  /\ box' = Reloaded(Written(Image(boxes'), Generated(target, certs)), connected)
  /\ silent' = FALSE
  /\ UNCHANGED <<target, certs, inserted, connected, faults>>

\* The catch block commits ERROR and what ids there are by then, and removes what
\* it can.  made: the failure came after the container was created.  The network
\* stays while containers are in it.
EnableFails ==
  \E made, found \in BOOLEAN :
    /\ config.status # "ENABLED"
    /\ made => found /\ boxes < MaxBoxes
    /\ boxes' = IF made THEN boxes + 1 ELSE boxes
    /\ config' = [status |-> "ERROR",
                  box |-> IF made THEN boxes' ELSE config.box,
                  net |-> config.net \/ found]
    /\ box' \in {IF made THEN Image(boxes') ELSE box, NoBox}
    /\ network' \in {network \/ found} \cup (IF config'.net /\ connected = {} THEN {FALSE} ELSE {})
    /\ Faults(TRUE)
    /\ UNCHANGED <<target, certs, inserted, connected, silent>>

\* A mutant: what could not be removed is only logged.
Detected_Never(left, answers) == FALSE

\* containerExists and networkExists: Docker has to answer for something to be
\* found still there.
Detected(left, answers) == left /\ answers

\* Everything is tried.  stuck, kept, left: what stayed in the network, whether
\* the container and the network stayed.
Disable ==
  \E stuck \in SUBSET connected, kept, left, answers \in BOOLEAN :
    /\ config.status \in {"ENABLED", "ERROR"}
    /\ kept => Executes(config.box)
    /\ left => config.net /\ network
    /\ stuck # {} => left
    /\ box' = IF Executes(config.box) /\ ~kept THEN NoBox ELSE box
    /\ IF Detected(kept, answers)
       THEN network' = network
       ELSE network' = (network /\ (left \/ ~config.net))
    /\ connected' = IF network' THEN (IF config.net THEN stuck ELSE connected) ELSE {}
    /\ config' = IF Detected(kept \/ left, answers)
                 THEN [config EXCEPT !.status = "ERROR"]
                 ELSE [status |-> "DISABLED", box |-> 0, net |-> FALSE]
    /\ Faults(kept \/ left)
    /\ silent' = (silent \/ ((kept \/ left) /\ ~answers))
    /\ UNCHANGED <<target, certs, inserted, boxes>>

-----------------------------------------------------------------------------
(* Routes.                                                                 *)

\* A route with TLS brings a new certificate row, whatever rows there are.
Inserted(h) ==
  IF h = TlsHost
  THEN [certs EXCEPT ![inserted + 1] = [status |-> "PENDING", issue |-> 0]]
  ELSE certs

\* Connecting may fail and is then only logged.
Connects(k) ==
  /\ connected' \in {connected} \cup (IF network THEN {connected \cup {k}} ELSE {})

ExposeApp(h, k) ==
  /\ config.status = "ENABLED" /\ target[h] = None
  /\ h = TlsHost => inserted < MaxCerts
  /\ Connects(k)
  /\ target' = [target EXCEPT ![h] = k]
  /\ certs' = Inserted(h)
  /\ inserted' = IF h = TlsHost THEN inserted + 1 ELSE inserted
  /\ Apply(Generated(target', certs'))
  /\ Faults(k \notin connected')
  /\ UNCHANGED <<config, boxes, network, silent>>

\* The exception rolls the rows back, the audit entry of the catch block too.
ExposeFails(h, k) ==
  /\ config.status = "ENABLED" /\ target[h] = None
  /\ h = TlsHost => inserted < MaxCerts
  /\ Connects(k)
  /\ ApplyFails(Generated([target EXCEPT ![h] = k], Inserted(h)))
  /\ UNCHANGED <<rows, boxes, network, silent>>

\* A mutant: disconnected whatever else leads to the container.
LastRoute_Any(h) == TRUE

LastRoute(h) == \A g \in Hostnames \ {h} : target[g] # target[h]

\* Only logged too.
Disconnects(h, disconnect) ==
  connected' \in {connected} \cup
    (IF disconnect /\ LastRoute(h) THEN {connected \ {target[h]}} ELSE {})

\* The certificate rows stay.
RemoveRoute(h, disconnect) ==
  /\ target[h] # None
  /\ target' = [target EXCEPT ![h] = None]
  /\ IF config.status = "ENABLED"
     THEN /\ Disconnects(h, disconnect)
          /\ Apply(Generated(target', certs))
          /\ Faults(disconnect /\ LastRoute(h) /\ target[h] \in connected')
     ELSE UNCHANGED <<connected, box, faults>>
  /\ UNCHANGED <<config, certs, inserted, boxes, network, silent>>

RemoveFails(h, disconnect) ==
  /\ target[h] # None /\ config.status = "ENABLED"
  /\ Disconnects(h, disconnect)
  /\ ApplyFails(Generated([target EXCEPT ![h] = None], certs))
  /\ UNCHANGED <<rows, boxes, network, silent>>

\* The page's reload button.
RegenerateNginxConfig ==
  /\ config.status = "ENABLED"
  /\ UNCHANGED connected
  /\ \/ Apply(Generated(target, certs)) /\ UNCHANGED faults
     \/ ApplyFails(Generated(target, certs))
  /\ UNCHANGED <<rows, boxes, network, silent>>

-----------------------------------------------------------------------------
Lifecycle == EnableSucceeds \/ EnableFails \/ Disable

RouteStep ==
  \/ \E h \in Hostnames, k \in Containers : ExposeApp(h, k) \/ ExposeFails(h, k)
  \/ \E h \in Hostnames, d \in BOOLEAN : RemoveRoute(h, d) \/ RemoveFails(h, d)
  \/ RegenerateNginxConfig

Next == Lifecycle \/ RouteStep

Spec == Init /\ [][Next]_ingress
=============================================================================
