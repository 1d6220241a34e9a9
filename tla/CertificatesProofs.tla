-------------------------- MODULE CertificatesProofs --------------------------
(* Theorems about Ingress and Certificates, for any hostnames, containers,  *)
(* requests, certificates and failures.                                     *)
EXTENDS Certificates, TLAPS

\* A container that is gone has left nothing.
BoxInv == box.id = 0 => box = NoBox

\* What a request that holds a configuration knows of it: the routes, or all.
Knows(r) == IF r.pc = "certs" THEN r.routes \in Routes ELSE r.conf \in Conf

\* The row a request holds, by how far it has come; any row that is ACTIVE has a
\* certificate, and a request that has read routes has them, or a file.
RowInv ==
  /\ \A c \in Rows(certs) : certs[c].status = "ACTIVE" => certs[c].issue # 0
  /\ \A t \in UnderWay :
       IF t \in Deploying
       THEN request[t].row.status = "ACTIVE" /\ request[t].row.issue # 0
       ELSE request[t].row.status = "PENDING"
  /\ \A t \in Holding : Knows(request[t])

\* The configuration a request holds was a configuration, and is the present one
\* as long as nothing overtakes it.
HeldInv ==
  \A t \in UnderWay :
    /\ request[t].config.box <= boxes
    /\ request[t].config.status = "ENABLED" => request[t].config.box # 0 /\ request[t].config.net
    /\ ~overtaken => request[t].config = config

\* The row knows of container and network.
PlaceInv ==
  /\ ~(silent \/ overtaken) => box.id \in {0, config.box} /\ (network => config.net)
  /\ config.status = "ENABLED" /\ ~overtaken => box.id = config.box

\* Enabled, and nothing has happened since that the property excepts.
InStep == config.status = "ENABLED" /\ ~(lagging \/ overtaken)

\* There is one request at most, and its row is the one that is stored.
AloneInv ==
  /\ \A t, u \in UnderWay : t = u
  /\ \A t \in UnderWay : certs[request[t].id] = request[t].row
  /\ target[TlsHost] # None => \A c, d \in Rows(certs) : c = d
  /\ \A h \in Hostnames : target[h] \in connected \cup {None}

\* How far the deployment has come.
StageInv ==
  \A t \in Deploying :
    /\ request[t].pc # "chain" => box.chain = request[t].row.issue
    /\ request[t].pc \notin {"chain", "key"} => box.key = request[t].row.issue
    /\ t \in Holding => IF request[t].pc = "certs" THEN request[t].routes = target
                        ELSE request[t].conf = Generated(target, certs)
    /\ request[t].pc = "reload" => box.file = request[t].conf

\* A container serves these routes, and TlsHost with these rows' certificate.
Serves(b, routes, cs) ==
  /\ b.serves.target = routes
  /\ routes[TlsHost] # None /\ HasActive(cs) =>
       /\ b.serves.tls
       /\ b.chain = b.key /\ b.key = cs[First(cs)].issue

ServingInv == InStep => AloneInv /\ StageInv /\ (Deploying = {} => Serves(box, target, certs))

CertificatesInv ==
  CertificatesTypeOK /\ BoxInv /\ RowInv /\ HeldInv /\ PlaceInv /\ DisabledIsGone /\ ServingInv

-----------------------------------------------------------------------------
(* Configurations and the container.                                       *)

LEMMA GeneratedConf ==
  ASSUME NEW routes \in Routes, NEW cs
  PROVE  /\ Generated(routes, cs) \in Conf
         /\ Generated(routes, cs).target = routes
         /\ Generated(routes, cs).tls <=> routes[TlsHost] # None /\ HasActive(cs)
  BY DEF Generated, Conf, HasActive

LEMMA WrittenBox ==
  ASSUME NEW b \in Box, NEW conf \in Conf
  PROVE  LET w == Written(b, conf) IN
         /\ w \in Box /\ w.file = conf /\ w.serves = b.serves
         /\ w.id = b.id /\ w.chain = b.chain /\ w.key = b.key
  BY DEF Written, Box

LEMMA ReloadedBox ==
  ASSUME NEW b \in Box, NEW there
  PROVE  LET r == Reloaded(b, there) IN
         /\ r \in Box /\ r.file = b.file
         /\ r.id = b.id /\ r.chain = b.chain /\ r.key = b.key
         /\ Loadable(b, there) => r.serves = b.file
<1>1. CASE Loadable(b, there)
  BY <1>1 DEF Reloaded, Box
<1>2. CASE ~Loadable(b, there)
  BY <1>2 DEF Reloaded
<1> QED BY <1>1, <1>2

LEMMA Images ==
  ASSUME NEW n \in Nat
  PROVE  Image(n) \in Box /\ Image(n).id = n
  BY IngressAssumption DEF Image, Box, NoConf, NoRoutes, Conf, Routes

LEMMA NoBoxes == NoBox \in Box /\ NoBox.id = 0
  BY Images DEF NoBox

\* The container keeps its identity.
SameBox == box' \in Box /\ box'.id = box.id /\ (box.id = 0 => box' = box)

LEMMA ApplyKeeps ==
  ASSUME IngressTypeOK, NEW conf \in Conf, Apply(conf)
  PROVE  /\ SameBox /\ box'.chain = box.chain /\ box'.key = box.key
         /\ box' = Reloaded(Written(box, conf), connected')
<1>1. box \in Box /\ Written(box, conf) \in Box
  BY WrittenBox DEF IngressTypeOK
<1> QED BY <1>1, WrittenBox, ReloadedBox DEF Apply, Executes, SameBox

LEMMA ApplyFailsKeeps ==
  ASSUME IngressTypeOK, NEW conf \in Conf, ApplyFails(conf)
  PROVE  /\ SameBox /\ box'.chain = box.chain /\ box'.key = box.key
         /\ faults' = faults + 1 /\ faults' \in 0 .. MaxFaults
<1>1. box \in Box /\ Written(box, conf) \in Box
  BY WrittenBox DEF IngressTypeOK
<1>2. faults' = faults + 1 /\ faults' \in 0 .. MaxFaults
  BY IngressAssumption DEF ApplyFails, Faults, IngressTypeOK
<1>3. CASE Executes(config.box)
  BY <1>1, <1>2, <1>3, WrittenBox, ReloadedBox DEF ApplyFails, SameBox, Executes
<1>4. CASE ~Executes(config.box)
  BY <1>1, <1>2, <1>4 DEF ApplyFails, SameBox
<1> QED BY <1>2, <1>3, <1>4

LEMMA FaultsType ==
  ASSUME IngressTypeOK, NEW fault, Faults(fault)
  PROVE  faults' \in 0 .. MaxFaults /\ (faults' = faults => ~fault) /\ (~fault => faults' = faults)
  BY IngressAssumption DEF IngressTypeOK, Faults

-----------------------------------------------------------------------------
(* What the steps leave of the types.                                      *)

\* Connecting and disconnecting, whatever fails.
LEMMA RouteTypes ==
  ASSUME IngressTypeOK, RouteStep
  PROVE  /\ IngressTypeOK'
         /\ UNCHANGED <<config, boxes, network, silent>>
         /\ SameBox /\ box'.chain = box.chain /\ box'.key = box.key
         /\ \A c \in CertIds :
              certs'[c] = certs[c] \/ certs'[c] = [status |-> "PENDING", issue |-> 0]
<1> USE IngressAssumption DEF IngressTypeOK
<1>1. ASSUME NEW h \in Hostnames, NEW k \in Containers, ExposeApp(h, k)
      PROVE  /\ IngressTypeOK'
             /\ UNCHANGED <<config, boxes, network, silent>>
             /\ SameBox /\ box'.chain = box.chain /\ box'.key = box.key
  <2>1. target' \in Routes
    BY <1>1 DEF ExposeApp, Routes
  <2>2. inserted' \in 0 .. MaxCerts /\ certs' \in [CertIds -> Cert \cup {None}]
    BY <1>1 DEF ExposeApp, Inserted, Cert, CertIds
  <2>3. connected' \subseteq Containers /\ (~network => connected' = {})
    BY <1>1 DEF ExposeApp, Connects
  <2>4. faults' \in 0 .. MaxFaults
    BY <1>1, FaultsType DEF ExposeApp
  <2>5. SameBox /\ box'.chain = box.chain /\ box'.key = box.key
    BY <1>1, <2>1, GeneratedConf, ApplyKeeps DEF ExposeApp
  <2> QED BY <1>1, <2>1, <2>2, <2>3, <2>4, <2>5 DEF ExposeApp, SameBox
<1>2. ASSUME NEW h \in Hostnames, NEW k \in Containers, ExposeFails(h, k)
      PROVE  /\ IngressTypeOK'
             /\ UNCHANGED <<config, boxes, network, silent>>
             /\ SameBox /\ box'.chain = box.chain /\ box'.key = box.key
  <2>1. [target EXCEPT ![h] = k] \in Routes
    BY DEF Routes
  <2>2. connected' \subseteq Containers /\ (~network => connected' = {})
    BY <1>2 DEF ExposeFails, Connects
  <2>3. /\ SameBox /\ box'.chain = box.chain /\ box'.key = box.key
        /\ faults' \in 0 .. MaxFaults
    BY <1>2, <2>1, GeneratedConf, ApplyFailsKeeps DEF ExposeFails
  <2> QED BY <1>2, <2>2, <2>3 DEF ExposeFails, rows, SameBox
<1>3. ASSUME NEW h \in Hostnames, NEW d \in BOOLEAN, RemoveRoute(h, d)
      PROVE  /\ IngressTypeOK'
             /\ UNCHANGED <<config, boxes, network, silent>>
             /\ SameBox /\ box'.chain = box.chain /\ box'.key = box.key
  <2>1. target' \in Routes
    BY <1>3 DEF RemoveRoute, Routes
  <2>2. CASE config.status = "ENABLED"
    <3>1. connected' \subseteq Containers /\ (~network => connected' = {})
      BY <1>3, <2>2 DEF RemoveRoute, Disconnects
    <3>2. faults' \in 0 .. MaxFaults
      BY <1>3, <2>2, FaultsType DEF RemoveRoute
    <3>3. SameBox /\ box'.chain = box.chain /\ box'.key = box.key
      BY <1>3, <2>1, <2>2, GeneratedConf, ApplyKeeps DEF RemoveRoute
    <3> QED BY <1>3, <2>1, <3>1, <3>2, <3>3 DEF RemoveRoute, SameBox
  <2>3. CASE config.status # "ENABLED"
    BY <1>3, <2>1, <2>3 DEF RemoveRoute, SameBox
  <2> QED BY <2>2, <2>3
<1>4. ASSUME NEW h \in Hostnames, NEW d \in BOOLEAN, RemoveFails(h, d)
      PROVE  /\ IngressTypeOK'
             /\ UNCHANGED <<config, boxes, network, silent>>
             /\ SameBox /\ box'.chain = box.chain /\ box'.key = box.key
  <2>1. [target EXCEPT ![h] = None] \in Routes
    BY DEF Routes
  <2>2. connected' \subseteq Containers /\ (~network => connected' = {})
    BY <1>4 DEF RemoveFails, Disconnects
  <2>3. /\ SameBox /\ box'.chain = box.chain /\ box'.key = box.key
        /\ faults' \in 0 .. MaxFaults
    BY <1>4, <2>1, GeneratedConf, ApplyFailsKeeps DEF RemoveFails
  <2> QED BY <1>4, <2>2, <2>3 DEF RemoveFails, rows, SameBox
<1>5. CASE RegenerateNginxConfig
  <2>1. Generated(target, certs) \in Conf
    BY GeneratedConf
  <2>2. /\ SameBox /\ box'.chain = box.chain /\ box'.key = box.key
        /\ faults' \in 0 .. MaxFaults
    BY <1>5, <2>1, ApplyKeeps, ApplyFailsKeeps DEF RegenerateNginxConfig
  <2> QED BY <1>5, <2>2 DEF RegenerateNginxConfig, rows, SameBox
<1>6. \A c \in CertIds : certs'[c] = certs[c] \/ certs'[c] = [status |-> "PENDING", issue |-> 0]
  BY DEF RouteStep, ExposeApp, ExposeFails, RemoveRoute, RemoveFails, RegenerateNginxConfig, rows,
     Inserted
<1> QED BY <1>1, <1>2, <1>3, <1>4, <1>5, <1>6 DEF RouteStep

LEMMA EnableSucceedsTypes ==
  ASSUME IngressTypeOK, EnableSucceeds
  PROVE  /\ IngressTypeOK'
         /\ boxes' \in Nat /\ boxes <= boxes'
         /\ config'.status = "ENABLED" /\ config'.box = box'.id /\ config'.box # 0
         /\ config'.net
<1> USE IngressAssumption DEF IngressTypeOK
<1>1. Written(Image(boxes'), Generated(target, certs)) \in Box
      /\ Written(Image(boxes'), Generated(target, certs)).id = boxes'
  BY Images, GeneratedConf, WrittenBox DEF EnableSucceeds
<1>2. box' \in Box /\ box'.id = boxes'
  BY <1>1, ReloadedBox DEF EnableSucceeds
<1>3. boxes' \in Nat /\ boxes <= boxes' /\ boxes' # 0
  BY DEF EnableSucceeds
<1>4. /\ config' \in Config /\ config'.box = boxes' /\ config'.status = "ENABLED"
      /\ config'.net
  BY <1>3 DEF EnableSucceeds, Config
<1>5. /\ network' = TRUE /\ silent' = FALSE
      /\ UNCHANGED <<target, certs, inserted, connected, faults>>
  BY DEF EnableSucceeds
<1>6. box'.id <= boxes' /\ config'.box <= boxes' /\ config'.box # 0
  BY <1>2, <1>3, <1>4
<1>7. IngressTypeOK'
  BY <1>2, <1>3, <1>4, <1>5, <1>6
<1> QED BY <1>2, <1>3, <1>4, <1>6, <1>7

LEMMA EnableFailsTypes ==
  ASSUME IngressTypeOK, BoxInv, EnableFails
  PROVE  /\ IngressTypeOK' /\ BoxInv'
         /\ boxes' \in Nat /\ boxes <= boxes'
         /\ config'.status = "ERROR" /\ silent' = silent
         /\ box.id \in {0, config.box} /\ (network => config.net) =>
              box'.id \in {0, config'.box} /\ (network' => config'.net)
<1> USE IngressAssumption DEF IngressTypeOK
<1>1. PICK made, found \in BOOLEAN :
        /\ made => found /\ boxes < MaxBoxes
        /\ boxes' = IF made THEN boxes + 1 ELSE boxes
        /\ config' = [status |-> "ERROR",
                      box |-> IF made THEN boxes' ELSE config.box,
                      net |-> config.net \/ found]
        /\ box' \in {IF made THEN Image(boxes') ELSE box, NoBox}
        /\ network' \in {network \/ found} \cup
             (IF config'.net /\ connected = {} THEN {FALSE} ELSE {})
        /\ Faults(TRUE)
        /\ UNCHANGED <<target, certs, inserted, connected, silent>>
  BY DEF EnableFails
<1>2. boxes' \in Nat /\ boxes <= boxes'
  BY <1>1
<1>3. box' \in Box /\ box'.id <= boxes'
  BY <1>1, <1>2, Images, NoBoxes DEF Box
<1>4. config' \in Config /\ config'.box <= boxes' /\ config'.status = "ERROR"
  BY <1>1, <1>2 DEF Config
<1>5. network' \in BOOLEAN /\ (~network' => connected' = {})
  BY <1>1 DEF Config
<1>6. faults' \in 0 .. MaxFaults
  BY <1>1, FaultsType
<1>7. BoxInv'
  BY <1>1, <1>2, Images DEF BoxInv
<1>8. IngressTypeOK'
  BY <1>1, <1>2, <1>3, <1>4, <1>5, <1>6
<1>9. box.id \in {0, config.box} /\ (network => config.net) =>
        box'.id \in {0, config'.box} /\ (network' => config'.net)
  <2>1. CASE made
    BY <1>1, <1>2, <2>1, Images, NoBoxes DEF Config
  <2>2. CASE ~made
    BY <1>1, <2>2, NoBoxes DEF Config
  <2> QED BY <2>1, <2>2
<1> QED BY <1>1, <1>2, <1>4, <1>7, <1>8, <1>9

\* Either the row says ERROR and both ids stay, or it forgets them.
LEMMA DisableTypes ==
  ASSUME IngressTypeOK, BoxInv, Disable
  PROVE  /\ IngressTypeOK' /\ BoxInv'
         /\ boxes' = boxes
         /\ config'.status # "ENABLED"
         /\ silent => silent'
         /\ ~silent' /\ box.id \in {0, config.box} /\ (network => config.net) =>
              \/ /\ config'.status = "ERROR" /\ config'.box = config.box /\ config'.net = config.net
                 /\ box'.id \in {0, box.id}
                 /\ network' => network
              \/ box' = NoBox /\ ~network'
<1> USE IngressAssumption DEF IngressTypeOK
<1>1. PICK stuck \in SUBSET connected, kept, left, answers \in BOOLEAN :
        /\ kept => Executes(config.box)
        /\ left => config.net /\ network
        /\ stuck # {} => left
        /\ box' = IF Executes(config.box) /\ ~kept THEN NoBox ELSE box
        /\ IF Detected(kept, answers)
           THEN network' = network
           ELSE network' = (network /\ (left \/ ~config.net))
        /\ connected' = IF network' THEN (IF config.net THEN stuck ELSE connected) ELSE {}
        /\ config' = IF Detected(kept \/ left, answers)
                     THEN [config EXCEPT !.status = "ERROR"]
                     ELSE [status |-> "DISABLED", box |-> 0, net |-> FALSE]
        /\ Faults(kept \/ left)
        /\ silent' = (silent \/ ((kept \/ left) /\ ~answers))
        /\ UNCHANGED <<target, certs, inserted, boxes>>
  BY DEF Disable
<1>2. box' \in Box /\ box'.id \in {0, box.id} /\ box'.id <= boxes /\ BoxInv'
  BY <1>1, NoBoxes DEF BoxInv, Box
<1>3. \/ /\ config' \in Config /\ config'.status = "ERROR"
         /\ config'.box = config.box /\ config'.net = config.net
      \/ config' = [status |-> "DISABLED", box |-> 0, net |-> FALSE]
  BY <1>1 DEF Config
<1>4. config' \in Config /\ config'.status # "ENABLED" /\ config'.box <= boxes
  <2>1. CASE config' = [status |-> "DISABLED", box |-> 0, net |-> FALSE]
    <3>1. config' \in Config
      BY <2>1 DEF Config
    <3> QED BY <2>1, <3>1
  <2>2. CASE config'.status = "ERROR"
    BY <1>3, <2>2
  <2> QED BY <1>3, <2>1, <2>2
<1>5. network' \in BOOLEAN /\ (network' => network)
  BY <1>1 DEF Config
<1>6. connected' \subseteq Containers /\ (~network' => connected' = {})
  BY <1>1
<1>7. faults' \in 0 .. MaxFaults
  BY <1>1, FaultsType
<1>8. silent' \in BOOLEAN /\ (silent => silent')
  BY <1>1
<1>9. IngressTypeOK'
  BY <1>1, <1>2, <1>4, <1>5, <1>6, <1>7, <1>8
<1>10. ASSUME ~silent', box.id \in {0, config.box}, network => config.net,
              ~(/\ config'.status = "ERROR" /\ config'.box = config.box /\ config'.net = config.net
                /\ box'.id \in {0, box.id}
                /\ network' => network)
       PROVE  box' = NoBox /\ ~network'
  <2>1. ~Detected(kept \/ left, answers)
    BY <1>1, <1>2, <1>5, <1>10 DEF Config
  <2>2. ~kept /\ ~left
    BY <1>1, <1>10, <2>1 DEF Detected
  <2>3. ~network'
    BY <1>1, <1>10, <2>2 DEF Detected, Config
  <2>4. box' = NoBox
    BY <1>1, <1>10, <2>2 DEF BoxInv, Executes
  <2> QED BY <2>3, <2>4
<1> QED BY <1>1, <1>2, <1>4, <1>8, <1>9, <1>10

-----------------------------------------------------------------------------
(* Rows, types and places: what holds whatever fails.                      *)

CoreInv == CertificatesTypeOK /\ BoxInv /\ RowInv /\ HeldInv /\ PlaceInv /\ DisabledIsGone

\* Enabling and disabling: an operation under a request overtakes it.
LEMMA LifecycleCore ==
  ASSUME CoreInv, Lifecycle,
         overtaken' = (UnderWay # {} \/ (overtaken /\ config'.status # "ENABLED")),
         lagging' \in BOOLEAN, UNCHANGED <<request, issued>>
  PROVE  CoreInv'
<1> USE DEF CoreInv, CertificatesTypeOK
<1>0. UnderWay' = UnderWay /\ Deploying' = Deploying /\ certs' = certs
  BY DEF UnderWay, Deploying, Lifecycle, EnableSucceeds, EnableFails, Disable
<1>1. /\ IngressTypeOK' /\ BoxInv' /\ boxes' \in Nat /\ boxes <= boxes'
      /\ ~(silent' \/ overtaken') => box'.id \in {0, config'.box} /\ (network' => config'.net)
      /\ config'.status = "ENABLED" => box'.id = config'.box
      /\ config'.status = "DISABLED" /\ ~(silent' \/ overtaken') => box' = NoBox /\ ~network'
  <2>1. CASE EnableSucceeds
    BY <2>1, EnableSucceedsTypes DEF BoxInv
  <2>2. CASE EnableFails
    BY <2>2, EnableFailsTypes DEF PlaceInv
  <2>3. CASE Disable
    <3>1. boxes' = boxes /\ boxes \in Nat
      BY <2>3, DisableTypes DEF IngressTypeOK
    <3>2. ASSUME ~(silent' \/ overtaken')
          PROVE  /\ box'.id \in {0, config'.box} /\ (network' => config'.net)
                 /\ config'.status = "DISABLED" => box' = NoBox /\ ~network'
      <4>1. box.id \in {0, config.box} /\ (network => config.net)
        BY <2>3, <3>2, DisableTypes DEF PlaceInv
      <4> QED BY <2>3, <3>2, <4>1, DisableTypes, NoBoxes
    <3> QED BY <2>3, <3>1, <3>2, DisableTypes
  <2> QED BY <2>1, <2>2, <2>3 DEF Lifecycle
<1>2. CertificatesTypeOK'
  BY <1>1
<1>3. RowInv'
  BY <1>0 DEF RowInv, Rows, Holding
<1>4. HeldInv'
  <2>1. \A t \in UnderWay : request[t].config.box <= boxes'
    <3>1. \A t \in UnderWay : request[t].config.box \in Nat /\ request[t].config.box <= boxes
      BY NoneAssumption DEF HeldInv, UnderWay, Request, Config
    <3>2. boxes \in Nat
      BY DEF IngressTypeOK
    <3> QED BY <1>1, <3>1, <3>2
  <2> QED BY <1>0, <2>1 DEF HeldInv
<1>5. PlaceInv' /\ DisabledIsGone'
  BY <1>1 DEF PlaceInv, DisabledIsGone
<1> QED BY <1>1, <1>2, <1>3, <1>4, <1>5

\* A step that leaves the configuration, the network and the container's identity.
LEMMA SameHostCore ==
  ASSUME CoreInv, UNCHANGED <<config, boxes, network, silent, overtaken>>, SameBox,
         CertificatesTypeOK', RowInv',
         \A t \in UnderWay' :
           \/ t \in UnderWay /\ request'[t].config = request[t].config
           \/ request'[t].config = config
  PROVE  CoreInv'
<1> USE DEF CoreInv
<1>1. BoxInv'
  BY DEF BoxInv, SameBox
<1>2. HeldInv'
  BY DEF HeldInv, CertificatesTypeOK, IngressTypeOK
<1>3. PlaceInv' /\ DisabledIsGone'
  BY NoBoxes DEF PlaceInv, DisabledIsGone, SameBox
<1> QED BY <1>1, <1>2, <1>3

LEMMA RouteCore ==
  ASSUME CoreInv, RouteStep, UNCHANGED <<request, issued, overtaken>>, lagging' \in BOOLEAN
  PROVE  CoreInv'
<1>1. CertificatesTypeOK'
  BY RouteTypes DEF CoreInv, CertificatesTypeOK
<1>2. UnderWay' = UnderWay /\ Deploying' = Deploying
  BY DEF UnderWay, Deploying
<1>3. RowInv'
  BY <1>2, RouteTypes DEF CoreInv, CertificatesTypeOK, RowInv, Rows, Holding
<1> QED BY <1>1, <1>2, <1>3, RouteTypes, SameHostCore DEF CoreInv, CertificatesTypeOK

LEMMA BeginCore ==
  ASSUME CoreInv, NEW t \in Requests, NEW c \in CertIds, Begin(t, c),
         UNCHANGED overtaken, lagging' \in BOOLEAN
  PROVE  CoreInv'
<1> USE DEF CoreInv, CertificatesTypeOK
<1> DEFINE row == [certs[c] EXCEPT !.status = "PENDING"]
           new == [Idle EXCEPT !.pc = "order", !.id = c, !.row = row, !.config = config]
<1>1. row \in Cert /\ row.status = "PENDING"
  <2>1. certs[c] \in Cert
    BY DEF Begin, IngressTypeOK
  <2> QED BY <2>1 DEF Cert
<1>2. config \in Config /\ c # 0
  BY DEF IngressTypeOK, CertIds
<1>3. /\ certs' = [certs EXCEPT ![c] = row]
      /\ request' = [request EXCEPT ![t] = new]
      /\ UNCHANGED <<config, target, inserted, box, boxes, network, connected, faults, silent, issued>>
  BY DEF Begin, host
<1> HIDE DEF row
<1>4. /\ new \in Request /\ new.pc = "order" /\ new.id = c /\ new.row = row
      /\ new.config = config
  <2>1. Idle \in Request
    BY DEF Idle, Request
  <2>2. new \in Request
    BY <1>1, <1>2, <2>1 DEF Request
  <2> QED BY <2>1, <2>2 DEF Request
<1> HIDE DEF new
<1>5. certs' \in [CertIds -> Cert \cup {None}] /\ request' \in [Requests -> Request]
  BY <1>1, <1>3, <1>4 DEF IngressTypeOK
<1>6. \A u \in Requests : IF u = t THEN request'[u] = new ELSE request'[u] = request[u]
  BY <1>3
<1>7. IngressTypeOK'
  BY <1>3, <1>5 DEF IngressTypeOK
<1>8. CertificatesTypeOK'
  BY <1>1, <1>2, <1>3, <1>4, <1>5, <1>6, <1>7, NoneAssumption
<1>9. RowInv'
  <2>1. \A d \in Rows(certs') : certs'[d].status = "ACTIVE" => certs'[d].issue # 0
    BY <1>1, <1>3 DEF RowInv, Rows, IngressTypeOK
  <2>2. \A u \in UnderWay' :
          IF u \in Deploying'
          THEN request'[u].row.status = "ACTIVE" /\ request'[u].row.issue # 0
          ELSE request'[u].row.status = "PENDING"
    BY <1>1, <1>4, <1>6 DEF RowInv, UnderWay, Deploying
  <2>3. \A u \in Holding' : Knows(request'[u])
    BY <1>4, <1>6 DEF RowInv, Holding
  <2> QED BY <2>1, <2>2, <2>3 DEF RowInv
<1>10. \A u \in UnderWay' :
        \/ u \in UnderWay /\ request'[u].config = request[u].config
        \/ request'[u].config = config
  BY <1>4, <1>6 DEF UnderWay
<1> QED BY <1>3, <1>8, <1>9, <1>10, SameHostCore DEF SameBox, IngressTypeOK

\* A request that goes on with its row, or ends.
GoesOn(t) ==
  /\ request' \in [Requests -> Request]
  /\ \A u \in Requests \ {t} : request'[u] = request[u]
  /\ \/ request'[t] = Idle
     \/ /\ request'[t].pc # "idle"
        /\ request'[t].id = request[t].id /\ request'[t].config = request[t].config
        /\ request'[t].row \in Cert
        /\ IF request'[t].pc \in {"order", "issue"}
           THEN request'[t].row.status = "PENDING"
           ELSE request'[t].row.status = "ACTIVE" /\ request'[t].row.issue # 0
        /\ request'[t].pc \in {"certs", "save", "write", "reload"} => Knows(request'[t])

LEMMA GoesOnCore ==
  ASSUME CoreInv, NEW t \in UnderWay, GoesOn(t), IngressTypeOK', SameBox,
         UNCHANGED <<config, boxes, network, silent, overtaken>>,
         \A c \in Rows(certs') : certs'[c].status = "ACTIVE" => certs'[c].issue # 0,
         issued' \in Nat, lagging' \in BOOLEAN
  PROVE  CoreInv'
<1> USE DEF CoreInv, CertificatesTypeOK
<1>1. \A u \in UnderWay' :
        u \in UnderWay /\ request'[u].config = request[u].config
  BY DEF GoesOn, UnderWay, Idle
<1>2. CertificatesTypeOK'
  BY NoneAssumption DEF GoesOn, UnderWay, Idle
<1>3. \A u \in UnderWay' :
        IF u \in Deploying'
        THEN request'[u].row.status = "ACTIVE" /\ request'[u].row.issue # 0
        ELSE request'[u].row.status = "PENDING"
  BY DEF GoesOn, UnderWay, Deploying, Idle, RowInv
<1>4. \A u \in Holding' : Knows(request'[u])
  BY DEF GoesOn, Holding, UnderWay, Idle, RowInv
<1> QED BY <1>1, <1>2, <1>3, <1>4, SameHostCore DEF RowInv

LEMMA Requesting == Idle \in Request
  BY DEF Idle, Request

LEMMA SavesGoesOn ==
  ASSUME CertificatesTypeOK, NEW t \in UnderWay, NEW row \in Cert,
         NEW pc \in {"idle", "issue", "chain"}, Saves(t, row, pc),
         pc = "issue" => row.status = "PENDING",
         pc = "chain" => row.status = "ACTIVE" /\ row.issue # 0
  PROVE  /\ GoesOn(t)
         /\ certs' \in [CertIds -> Cert \cup {None}]
         /\ \A c \in Rows(certs') : certs'[c] = row \/ (c \in Rows(certs) /\ certs'[c] = certs[c])
<1> USE DEF CertificatesTypeOK, IngressTypeOK
<1>1. t \in Requests /\ request[t] \in Request /\ request[t].id \in CertIds
  BY DEF UnderWay, Request
<1>2. CASE certs[request[t].id] = None
  BY <1>1, <1>2, Requesting DEF Saves, Ends, GoesOn
<1>3. CASE certs[request[t].id] # None
  <2>1. certs' = [certs EXCEPT ![request[t].id] = row]
    BY <1>3 DEF Saves
  <2>2. CASE pc = "idle"
    BY <1>1, <1>3, <2>1, <2>2, Requesting DEF Saves, GoesOn, Rows
  <2>3. CASE pc # "idle"
    <3> DEFINE new == [request[t] EXCEPT !.pc = pc, !.row = row]
    <3>1. request' = [request EXCEPT ![t] = new]
      BY <1>1, <1>3, <2>3 DEF Saves
    <3>2. /\ new \in Request /\ new.pc = pc /\ new.row = row /\ new.id = request[t].id
          /\ new.config = request[t].config
      BY <1>1, <2>3 DEF Request
    <3> HIDE DEF new
    <3>3. GoesOn(t)
      BY <1>1, <2>3, <3>1, <3>2 DEF GoesOn
    <3> QED BY <1>1, <2>1, <3>3 DEF Rows
  <2> QED BY <2>2, <2>3
<1> QED BY <1>2, <1>3

\* The steps that save a certificate's row.
LEMMA SavingCore ==
  ASSUME CoreInv, NEW t \in Requests, Proceed(t) \/ Issue(t) \/ Fail(t),
         UNCHANGED overtaken, lagging' \in BOOLEAN
  PROVE  CoreInv'
<1> USE DEF CoreInv, CertificatesTypeOK
<1>1. /\ t \in UnderWay /\ t \notin Deploying
      /\ request[t].row \in Cert /\ request[t].row.status = "PENDING"
  BY DEF Proceed, Issue, Fail, At, UnderWay, Deploying, Request, RowInv
<1>2. /\ UNCHANGED <<config, target, inserted, box, boxes, network, connected, faults, silent, overtaken>>
      /\ issued' \in Nat
  BY DEF Proceed, Issue, Fail, rowOnly, host
<1>3. /\ GoesOn(t)
      /\ certs' \in [CertIds -> Cert \cup {None}]
      /\ \A c \in Rows(certs') : certs'[c].status = "ACTIVE" => certs'[c].issue # 0
  <2>1. CASE Proceed(t)
    BY <1>1, <2>1, SavesGoesOn DEF Proceed, RowInv
  <2>2. CASE Issue(t)
    <3> DEFINE row == [status |-> "ACTIVE", issue |-> issued']
    <3>1. row \in Cert /\ row.status = "ACTIVE" /\ row.issue # 0
      BY <2>2 DEF Issue, Cert
    <3>2. Saves(t, row, "chain")
      BY <2>2 DEF Issue
    <3> HIDE DEF row
    <3> QED BY <1>1, <3>1, <3>2, SavesGoesOn DEF RowInv
  <2>3. CASE Fail(t)
    <3> DEFINE row == [request[t].row EXCEPT !.status = "ERROR"]
    <3>1. row \in Cert /\ row.status = "ERROR"
      BY <1>1 DEF Cert
    <3>2. Saves(t, row, "idle")
      BY <2>3 DEF Fail
    <3> HIDE DEF row
    <3> QED BY <1>1, <3>1, <3>2, SavesGoesOn DEF RowInv
  <2> QED BY <2>1, <2>2, <2>3
<1>4. IngressTypeOK' /\ SameBox
  BY <1>2, <1>3 DEF IngressTypeOK, SameBox
<1> QED BY <1>1, <1>2, <1>3, <1>4, GoesOnCore

\* The steps of the deployment that leave the rows.
DeployStep(t) ==
  \/ PutChain(t) \/ PutKey(t) \/ ReadRoutes(t) \/ ReadCerts(t) \/ WriteConfig(t) \/ Reload(t) \/ CommandFails(t)

LEMMA DeployGoesOn ==
  ASSUME CoreInv, NEW t \in Requests, DeployStep(t)
  PROVE  t \in Deploying /\ t \in UnderWay /\ GoesOn(t)
<1> USE DEF CoreInv, CertificatesTypeOK
<1>1. t \in Deploying /\ t \in UnderWay
  BY DEF DeployStep, PutChain, PutKey, ReadRoutes, ReadCerts, WriteConfig, Reload, CommandFails, At, Deploying,
     UnderWay
<1>2. /\ request[t] \in Request /\ request[t].row \in Cert
      /\ request[t].row.status = "ACTIVE" /\ request[t].row.issue # 0
  BY <1>1 DEF RowInv, UnderWay, Request
<1>3. ASSUME NEW pc \in {"key", "routes", "reload"}, Goes(t, pc),
             pc = "reload" => t \in Holding /\ request[t].pc # "certs"
      PROVE  GoesOn(t)
  BY <1>2, <1>3 DEF Goes, GoesOn, Request, RowInv, Knows
<1>4. Ends(t) => GoesOn(t)
  BY Requesting DEF Ends, GoesOn
<1>5. ASSUME ReadRoutes(t) PROVE GoesOn(t)
  <2> DEFINE new == [request[t] EXCEPT !.pc = "certs", !.routes = target]
  <2>1. target \in Routes /\ request' = [request EXCEPT ![t] = new]
    BY <1>5 DEF ReadRoutes, IngressTypeOK
  <2>2. /\ new \in Request /\ new.pc = "certs" /\ new.row = request[t].row
        /\ new.id = request[t].id /\ new.config = request[t].config /\ new.routes = target
    BY <1>2, <2>1 DEF Request
  <2> HIDE DEF new
  <2> QED BY <1>2, <2>1, <2>2 DEF GoesOn, Knows
<1>6. ASSUME ReadCerts(t) PROVE GoesOn(t)
  <2> DEFINE conf == Generated(request[t].routes, certs)
             new == [request[t] EXCEPT !.pc = "save", !.conf = conf]
  <2>1. request' = [request EXCEPT ![t] = new]
    BY <1>6 DEF ReadCerts
  <2>2. request[t].routes \in Routes
    BY <1>1, <1>6 DEF ReadCerts, At, RowInv, Holding, Knows, UnderWay
  <2>3. conf \in Conf
    BY <2>2, GeneratedConf
  <2> HIDE DEF conf
  <2>4. /\ new \in Request /\ new.pc = "save" /\ new.row = request[t].row
        /\ new.id = request[t].id /\ new.config = request[t].config /\ new.conf = conf
    BY <1>2, <2>3 DEF Request
  <2> HIDE DEF new
  <2> QED BY <1>2, <2>1, <2>3, <2>4 DEF GoesOn, Knows
<1> QED BY <1>1, <1>3, <1>4, <1>5, <1>6
     DEF DeployStep, PutChain, PutKey, WriteConfig, Reload, CommandFails, Holding, At

LEMMA DeployCore ==
  ASSUME CoreInv, NEW t \in Requests, DeployStep(t), UNCHANGED overtaken, lagging' \in BOOLEAN
  PROVE  CoreInv'
<1> USE DEF CoreInv, CertificatesTypeOK
<1>1. /\ t \in UnderWay /\ GoesOn(t) /\ request[t].row \in Cert
      /\ t \in Holding => Knows(request[t])
  BY DeployGoesOn DEF UnderWay, Request, RowInv
<1>2. UNCHANGED <<config, target, certs, inserted, boxes, network, connected, silent, issued>>
  BY DEF DeployStep, PutChain, PutKey, ReadRoutes, ReadCerts, WriteConfig, Reload, CommandFails, boxOnly, rows,
     host
<1>3. faults' \in 0 .. MaxFaults
  <2>1. CASE CommandFails(t)
    BY <2>1, FaultsType DEF CommandFails
  <2>2. CASE ~CommandFails(t)
    BY <2>2 DEF DeployStep, PutChain, PutKey, ReadRoutes, ReadCerts, WriteConfig, Reload, boxOnly, IngressTypeOK
  <2> QED BY <2>1, <2>2
<1>4. SameBox
  <2> USE DEF IngressTypeOK
  <2>1. CASE PutChain(t) \/ PutKey(t)
    BY <1>1, <2>1 DEF PutChain, PutKey, Reaches, Executes, SameBox, Box, Cert
  <2>2. CASE WriteConfig(t)
    <3>1. box' = [box EXCEPT !.file = request[t].conf] /\ box.id # 0
      BY <2>2 DEF WriteConfig, Written, Reaches, Executes
    <3>2. request[t].conf \in Conf
      BY <1>1, <2>2 DEF WriteConfig, At, Holding, UnderWay, Knows
    <3> QED BY <3>1, <3>2 DEF SameBox, Box
  <2>3. CASE Reload(t)
    BY <2>3, ReloadedBox DEF Reload, Reaches, Executes, SameBox
  <2>4. CASE ReadRoutes(t) \/ ReadCerts(t) \/ CommandFails(t)
    BY <2>4 DEF ReadRoutes, ReadCerts, CommandFails, host, SameBox
  <2> QED BY <2>1, <2>2, <2>3, <2>4 DEF DeployStep
<1>5. IngressTypeOK'
  BY <1>2, <1>3, <1>4 DEF IngressTypeOK, SameBox
<1> QED BY <1>1, <1>2, <1>4, <1>5, GoesOnCore DEF RowInv

\* Saving the configuration as the request knows it can only undo what overtook it.
LEMMA SaveConfigCore ==
  ASSUME CoreInv, NEW t \in Requests, SaveConfig(t), UNCHANGED overtaken, lagging' \in BOOLEAN
  PROVE  CoreInv' /\ (~overtaken => config' = config)
<1> USE DEF CoreInv, CertificatesTypeOK
<1>1. /\ t \in UnderWay /\ t \in Holding /\ t \in Deploying /\ request[t] \in Request
      /\ config' = request[t].config /\ request[t].config \in Config
  BY NoneAssumption DEF SaveConfig, At, UnderWay, Holding, Deploying, Request
<1>2. /\ UNCHANGED <<target, certs, inserted, box, boxes, network, connected, faults, silent, issued>>
      /\ request' = [request EXCEPT ![t].pc = "write"]
  BY DEF SaveConfig, host, Goes
<1>3. /\ request[t].pc = "save" /\ request' \in [Requests -> Request]
      /\ \A u \in Requests :
           /\ request'[u].id = request[u].id /\ request'[u].row = request[u].row
           /\ request'[u].config = request[u].config /\ request'[u].conf = request[u].conf
           /\ request'[u].routes = request[u].routes
           /\ (u = t /\ request'[u].pc = "write") \/ (u # t /\ request'[u].pc = request[u].pc)
  BY <1>1, <1>2 DEF Request, SaveConfig, At
<1>4. UnderWay' = UnderWay /\ Deploying' = Deploying /\ Holding' = Holding
  BY <1>1, <1>3 DEF UnderWay, Deploying, Holding
<1>5. /\ config'.box <= boxes
      /\ config'.status = "ENABLED" => config'.box # 0 /\ config'.net
      /\ ~overtaken => config' = config
  BY <1>1 DEF HeldInv
<1>6. IngressTypeOK'
  BY <1>1, <1>2, <1>5 DEF IngressTypeOK
<1>7. CertificatesTypeOK'
  BY <1>2, <1>3, <1>4, <1>6 DEF UnderWay
<1>8. RowInv'
  BY <1>2, <1>3, <1>4 DEF RowInv, Rows, UnderWay, Holding, Knows
<1>9. BoxInv' /\ PlaceInv' /\ DisabledIsGone'
  BY <1>2, <1>5 DEF BoxInv, PlaceInv, DisabledIsGone
<1>10. HeldInv'
  BY <1>2, <1>3, <1>4, <1>5 DEF HeldInv, UnderWay
<1> QED BY <1>5, <1>7, <1>8, <1>9, <1>10

LEMMA RestartCore ==
  ASSUME CoreInv, Restart, UNCHANGED overtaken, lagging' \in BOOLEAN
  PROVE  CoreInv'
<1> USE DEF CoreInv, CertificatesTypeOK
<1>1. /\ UNCHANGED <<config, target, certs, inserted, box, boxes, network, connected, silent, issued>>
      /\ request' \in [Requests -> Request]
      /\ \A t \in Requests : request'[t] = Idle
  BY Requesting DEF Restart, rows, host
<1>2. UnderWay' = {} /\ Holding' = {}
  BY <1>1 DEF UnderWay, Holding, Idle
<1>3. faults' \in 0 .. MaxFaults
  BY FaultsType DEF Restart
<1>4. IngressTypeOK' /\ SameBox
  BY <1>1, <1>3 DEF IngressTypeOK, SameBox
<1>5. CertificatesTypeOK'
  BY <1>1, <1>4 DEF Idle
<1>6. RowInv'
  BY <1>1, <1>2 DEF RowInv
<1> QED BY <1>1, <1>2, <1>4, <1>5, <1>6, SameHostCore

\* The container with an uploaded certificate's files, and the configuration.
Filed(n, key) == [box EXCEPT !.chain = n, !.key = key]

Uploaded(n, key, conf) == Written(Filed(n, key), conf)

\* How far it gets.
UploadedTo(n, key, conf) ==
  {box, [box EXCEPT !.chain = n], Filed(n, key), Reloaded(Filed(n, key), connected),
   Uploaded(n, key, conf), Reloaded(Uploaded(n, key, conf), connected)}

LEMMA UploadBoxes ==
  ASSUME IngressTypeOK, NEW n \in Nat, NEW key \in Nat, NEW conf \in Conf
  PROVE  /\ \A b \in UploadedTo(n, key, conf) : b \in Box /\ b.id = box.id
         /\ Uploaded(n, key, conf) \in Box
         /\ Uploaded(n, key, conf).chain = n /\ Uploaded(n, key, conf).key = key
         /\ Uploaded(n, key, conf).file = conf
<1> DEFINE filed == Filed(n, key)
           written == Uploaded(n, key, conf)
<1>1. /\ filed \in Box /\ filed.id = box.id /\ filed.chain = n /\ filed.key = key
      /\ box \in Box
      /\ [box EXCEPT !.chain = n] \in Box /\ [box EXCEPT !.chain = n].id = box.id
  BY DEF IngressTypeOK, Box, Filed
<1>4. written = Written(filed, conf)
  BY DEF Uploaded
<1> HIDE DEF filed
<1>2. /\ written \in Box /\ written.id = box.id /\ written.chain = n /\ written.key = key
      /\ written.file = conf
  BY <1>1, <1>4, WrittenBox
<1> HIDE DEF written
<1>3. \A b \in {filed, written} : Reloaded(b, connected) \in Box /\ Reloaded(b, connected).id = box.id
  BY <1>1, <1>2, ReloadedBox
<1> QED BY <1>1, <1>2, <1>3 DEF filed, written, UploadedTo

\* A transaction on a certificate's row.
Administer ==
  \E c \in CertIds : DeleteCertificate(c) \/ \E fits \in BOOLEAN : UploadCertificate(c, fits)

LEMMA AdministerCore ==
  ASSUME CoreInv, Administer, UNCHANGED overtaken, lagging' \in BOOLEAN
  PROVE  CoreInv'
<1> USE DEF CoreInv, CertificatesTypeOK
<1>1. /\ UNCHANGED <<config, target, inserted, boxes, network, connected, silent, request>>
      /\ issued' \in Nat
  <2>1. ASSUME NEW c \in CertIds, NEW fits \in BOOLEAN,
               DeleteCertificate(c) \/ UploadCertificate(c, fits)
        PROVE  /\ UNCHANGED <<config, target, inserted, boxes, network, connected, silent, request>>
               /\ issued' \in Nat
    <3>1. UNCHANGED <<config, target, inserted, boxes, network, connected, silent, request>>
      BY <2>1 DEF DeleteCertificate, UploadCertificate
    <3>2. issued' = issued \/ issued' = issued + 1
      BY <2>1 DEF DeleteCertificate, UploadCertificate
    <3> QED BY <3>1, <3>2
  <2> QED BY <2>1 DEF Administer
<1>2. /\ certs' \in [CertIds -> Cert \cup {None}]
      /\ \A c \in Rows(certs') : certs'[c].status = "ACTIVE" => certs'[c].issue # 0
      /\ faults' \in 0 .. MaxFaults
      /\ SameBox
  <2>1. ASSUME NEW c \in CertIds, DeleteCertificate(c)
        PROVE  /\ certs' \in [CertIds -> Cert \cup {None}]
               /\ \A d \in Rows(certs') : certs'[d].status = "ACTIVE" => certs'[d].issue # 0
               /\ faults' \in 0 .. MaxFaults
               /\ SameBox
    <3>1. /\ certs' \in [CertIds -> Cert \cup {None}]
          /\ \A d \in Rows(certs') : certs'[d].status = "ACTIVE" => certs'[d].issue # 0
      BY <2>1 DEF DeleteCertificate, Rows, RowInv, IngressTypeOK
    <3>2. faults' \in 0 .. MaxFaults
      BY <2>1, FaultsType DEF DeleteCertificate, IngressTypeOK
    <3>3. SameBox
      <4>1. [box EXCEPT !.chain = 0, !.key = 0] \in Box /\ [box EXCEPT !.chain = 0, !.key = 0].id = box.id
        BY DEF IngressTypeOK, Box
      <4>2. \/ box' = box
            \/ box.id # 0 /\ box' = [box EXCEPT !.chain = 0, !.key = 0]
        BY <2>1 DEF DeleteCertificate, Executes
      <4> QED BY <4>1, <4>2 DEF SameBox, IngressTypeOK
    <3> QED BY <3>1, <3>2, <3>3
  <2>2. ASSUME NEW c \in CertIds, NEW fits \in BOOLEAN, UploadCertificate(c, fits)
        PROVE  /\ certs' \in [CertIds -> Cert \cup {None}]
               /\ \A d \in Rows(certs') : certs'[d].status = "ACTIVE" => certs'[d].issue # 0
               /\ faults' \in 0 .. MaxFaults
               /\ SameBox
    <3> DEFINE row == [status |-> "ACTIVE", issue |-> issued']
    <3>1. row \in Cert /\ row.issue # 0 /\ certs' = [certs EXCEPT ![c] = row] /\ issued' \in Nat
      BY <2>2 DEF UploadCertificate, Cert
    <3>2. PICK n \in Nat, key \in Nat, conf \in Conf :
            n = issued' /\ key = (IF fits THEN issued' ELSE 0) /\ conf = Generated(target, certs')
      BY <3>1, GeneratedConf DEF IngressTypeOK
    <3>3. /\ box' \in UploadedTo(n, key, conf)
          /\ ~Executes(config.box) => box' = box
          /\ UNCHANGED faults \/ Faults(TRUE)
      BY <2>2, <3>2 DEF UploadCertificate, Filed, Uploaded, UploadedTo
    <3>4. \A b \in UploadedTo(n, key, conf) : b \in Box /\ b.id = box.id
      BY UploadBoxes
    <3>5. /\ certs' \in [CertIds -> Cert \cup {None}]
          /\ \A d \in Rows(certs') : certs'[d].status = "ACTIVE" => certs'[d].issue # 0
      <4> HIDE DEF row
      <4> QED BY <3>1 DEF Rows, RowInv, IngressTypeOK
    <3>6. faults' \in 0 .. MaxFaults
      BY <3>3, FaultsType DEF IngressTypeOK
    <3> HIDE DEF row
    <3>7. SameBox
      BY <3>3, <3>4 DEF SameBox, Executes
    <3> QED BY <3>5, <3>6, <3>7
  <2> QED BY <2>1, <2>2 DEF Administer
<1>3. IngressTypeOK'
  BY <1>1, <1>2 DEF IngressTypeOK, SameBox
<1>4. CertificatesTypeOK'
  BY <1>1, <1>3
<1>5. UnderWay' = UnderWay /\ Deploying' = Deploying /\ Holding' = Holding
  BY <1>1 DEF UnderWay, Deploying, Holding
<1>6. RowInv'
  BY <1>1, <1>2, <1>5 DEF RowInv
<1> QED BY <1>1, <1>2, <1>4, <1>5, <1>6, SameHostCore

LEMMA CoreInit == CertificatesInit => CoreInv
<1> SUFFICES ASSUME CertificatesInit PROVE CoreInv
  OBVIOUS
<1> USE IngressAssumption DEF CertificatesInit, Init
<1>1. IngressTypeOK
  <2>1. config \in Config /\ target \in Routes /\ certs \in [CertIds -> Cert \cup {None}]
    BY DEF Config, Routes, NoRoutes
  <2>2. box \in Box /\ box.id = 0
    BY NoBoxes
  <2>3. config.status = "ABSENT" /\ config.box = 0 /\ boxes = 0 /\ connected = {}
    OBVIOUS
  <2>4. inserted \in 0 .. MaxCerts /\ faults \in 0 .. MaxFaults
    BY SMT
  <2>5. network \in BOOLEAN /\ silent \in BOOLEAN
    OBVIOUS
  <2> QED BY <2>1, <2>2, <2>3, <2>4, <2>5 DEF IngressTypeOK
<1>2. CertificatesTypeOK /\ UnderWay = {} /\ Holding = {} /\ Rows(certs) = {}
  BY <1>1, Requesting DEF CertificatesTypeOK, UnderWay, Holding, Idle, Rows
<1>3. config.status = "ABSENT" /\ config.box = 0
  OBVIOUS
<1> QED BY <1>2, <1>3, NoBoxes DEF CoreInv, BoxInv, RowInv, HeldInv, PlaceInv, DisabledIsGone

LEMMA CoreStep == CoreInv /\ [CertificatesNext]_vars => CoreInv'
<1> SUFFICES ASSUME CoreInv, [CertificatesNext]_vars PROVE CoreInv'
  OBVIOUS
<1>0. lagging \in BOOLEAN /\ (CertificatesNext => lagging' \in BOOLEAN)
  BY DEF CoreInv, CertificatesTypeOK, CertificatesNext, Lags
<1>1. CASE /\ Lifecycle
           /\ overtaken' = (UnderWay # {} \/ (overtaken /\ config'.status # "ENABLED"))
           /\ lagging' = (target # NoRoutes)
           /\ UNCHANGED <<request, issued>>
  BY <1>1, LifecycleCore
<1>2. CASE /\ RouteStep
           /\ Lags(Holding # {} \/ (inserted' # inserted /\ Rows(certs) # {}))
           /\ UNCHANGED <<request, issued>>
  BY <1>0, <1>2, RouteCore DEF Lags
<1>3. CASE \E t \in Requests, c \in CertIds : Begin(t, c) /\ Lags(UnderWay # {})
  BY <1>0, <1>3, BeginCore DEF Lags
<1>4. CASE \E t \in Requests : RequestStep(t) /\ Lags(FALSE)
  BY <1>0, <1>4, SavingCore, DeployCore, SaveConfigCore DEF Lags, RequestStep, DeployStep
<1>5. CASE Restart /\ Lags(FALSE)
  BY <1>0, <1>5, RestartCore DEF Lags
<1>6. CASE \/ \E c \in CertIds : DeleteCertificate(c) /\ Lags(UnderWay # {})
           \/ \E c \in CertIds, fits \in BOOLEAN :
                UploadCertificate(c, fits) /\ Lags(UnderWay # {} \/ ~fits)
  BY <1>0, <1>6, AdministerCore DEF Lags, Administer
<1>7. CASE UNCHANGED vars
  BY <1>7 DEF vars, ingress, rows, host, CoreInv, CertificatesTypeOK, IngressTypeOK, BoxInv, RowInv, Rows,
     HeldInv, PlaceInv, DisabledIsGone, UnderWay, Deploying, Holding
<1> QED BY <1>1, <1>2, <1>3, <1>4, <1>5, <1>6, <1>7 DEF CertificatesNext

-----------------------------------------------------------------------------
(* What nginx serves, as long as nothing is excepted.                      *)

LEMMA OnlyRow ==
  ASSUME NEW cs, NEW c \in Rows(cs), \A d, e \in Rows(cs) : d = e
  PROVE  First(cs) = c
<1>1. \A d \in Rows(cs) : c <= d
  BY DEF Rows, CertIds
<1> QED BY <1>1 DEF First

\* A generated file loads if its containers can be reached and its certificate is there.
LEMMA LoadsGenerated ==
  ASSUME NEW b \in Box, NEW routes \in Routes, NEW cs, NEW there,
         b.file = Generated(routes, cs),
         \A h \in Hostnames : routes[h] \in there \cup {None},
         routes[TlsHost] # None /\ HasActive(cs) =>
           b.chain # 0 /\ b.chain = b.key /\ b.key = cs[First(cs)].issue
  PROVE  Serves(Reloaded(b, there), routes, cs)
<1>1. /\ b.file.target = routes
      /\ b.file.tls <=> routes[TlsHost] # None /\ HasActive(cs)
  BY GeneratedConf
<1>2. Loadable(b, there)
  BY <1>1 DEF Loadable
<1>3. /\ Reloaded(b, there).serves = b.file
      /\ Reloaded(b, there).chain = b.chain /\ Reloaded(b, there).key = b.key
  BY <1>2, ReloadedBox
<1> QED BY <1>1, <1>3 DEF Serves

LEMMA AppliedServes ==
  ASSUME IngressTypeOK, NEW routes \in Routes, NEW cs, Apply(Generated(routes, cs)),
         \A h \in Hostnames : routes[h] \in connected' \cup {None},
         routes[TlsHost] # None /\ HasActive(cs) =>
           box.chain # 0 /\ box.chain = box.key /\ box.key = cs[First(cs)].issue
  PROVE  Serves(box', routes, cs)
<1> DEFINE conf == Generated(routes, cs)
           written == Written(box, conf)
<1>1. conf \in Conf /\ box \in Box
  BY GeneratedConf DEF IngressTypeOK
<1>2. /\ written \in Box /\ written.file = Generated(routes, cs)
      /\ written.chain = box.chain /\ written.key = box.key
  BY <1>1, WrittenBox
<1>3. box' = Reloaded(written, connected')
  BY DEF Apply
<1> HIDE DEF conf, written
<1>4. Serves(Reloaded(written, connected'), routes, cs)
  BY <1>2, LoadsGenerated
<1> QED BY <1>3, <1>4

LEMMA ActiveRow ==
  ASSUME RowInv, HasActive(certs), \A c, d \in Rows(certs) : c = d
  PROVE  First(certs) \in Rows(certs) /\ certs[First(certs)].issue # 0
<1>1. PICK c \in Rows(certs) : First(certs) = c
  BY OnlyRow DEF HasActive
<1> QED BY <1>1 DEF RowInv, HasActive

LEMMA LifecycleServes ==
  ASSUME CoreInv, Lifecycle,
         overtaken' = (UnderWay # {} \/ (overtaken /\ config'.status # "ENABLED")),
         lagging' = (target # NoRoutes), UNCHANGED request, InStep'
  PROVE  AloneInv' /\ StageInv' /\ Serves(box', target', certs')
<1>1. IngressTypeOK
  BY DEF CoreInv, CertificatesTypeOK
<1>2. EnableSucceeds /\ boxes' \in Nat
  BY <1>1, EnableFailsTypes, DisableTypes, EnableSucceedsTypes DEF Lifecycle, InStep, CoreInv
<1>3. UNCHANGED <<target, certs, connected>> /\ target = NoRoutes
  BY <1>2 DEF EnableSucceeds, InStep
<1>4. UnderWay' = {} /\ Deploying' = {}
  <2>1. UnderWay = {}
    BY DEF InStep
  <2> QED BY <2>1 DEF UnderWay, Deploying
<1>5. \A h \in Hostnames : target[h] = None
  BY <1>3 DEF NoRoutes
<1>6. AloneInv' /\ StageInv'
  BY <1>3, <1>4, <1>5, IngressAssumption DEF AloneInv, StageInv
<1>7. Serves(box', target, certs)
  <2> DEFINE conf == Generated(target, certs)
             written == Written(Image(boxes'), conf)
  <2>1. written \in Box /\ written.file = Generated(target, certs)
    BY <1>1, <1>2, Images, WrittenBox, GeneratedConf DEF IngressTypeOK
  <2>2. box' = Reloaded(written, connected)
    BY <1>2 DEF EnableSucceeds
  <2> HIDE DEF written
  <2>3. Serves(Reloaded(written, connected), target, certs)
    BY <1>1, <1>5, <2>1, LoadsGenerated, IngressAssumption DEF IngressTypeOK
  <2> QED BY <2>2, <2>3
<1> QED BY <1>3, <1>6, <1>7

\* A route whose operation succeeded can be reached, and only its own.
LEMMA RouteReached ==
  ASSUME IngressTypeOK, RouteStep, config.status = "ENABLED", faults' = faults,
         \A h \in Hostnames : target[h] \in connected \cup {None}
  PROVE  /\ target' \in Routes
         /\ Apply(Generated(target', certs'))
         /\ \A h \in Hostnames : target'[h] \in connected' \cup {None}
         /\ \/ UNCHANGED <<certs, inserted>> /\ target'[TlsHost] \in {target[TlsHost], None}
            \/ inserted' # inserted /\ certs' = Inserted(TlsHost) /\ inserted < MaxCerts
<1> USE DEF IngressTypeOK
<1>1. \A conf \in Conf : ~ApplyFails(conf)
  BY ApplyFailsKeeps
<1>2. ASSUME NEW h \in Hostnames, NEW k \in Containers, ExposeApp(h, k)
      PROVE  /\ target' \in Routes
             /\ Apply(Generated(target', certs'))
             /\ \A g \in Hostnames : target'[g] \in connected' \cup {None}
             /\ \/ UNCHANGED <<certs, inserted>> /\ target'[TlsHost] = target[TlsHost]
                \/ inserted' # inserted /\ certs' = Inserted(TlsHost) /\ inserted < MaxCerts
  <2>1. target' \in Routes /\ target' = [target EXCEPT ![h] = k]
    BY <1>2 DEF ExposeApp, Routes
  <2>2. connected \subseteq connected' /\ k \in connected'
    BY <1>2, FaultsType DEF ExposeApp, Connects
  <2>3. \A g \in Hostnames : target'[g] \in connected' \cup {None}
    BY <2>1, <2>2 DEF Routes
  <2>4. \/ UNCHANGED <<certs, inserted>> /\ target'[TlsHost] = target[TlsHost]
        \/ inserted' # inserted /\ certs' = Inserted(TlsHost) /\ inserted < MaxCerts
    <3>1. CASE h = TlsHost
      BY <1>2, <3>1 DEF ExposeApp
    <3>2. CASE h # TlsHost
      BY <1>2, <2>1, <3>2, IngressAssumption DEF ExposeApp, Inserted, Routes
    <3> QED BY <3>1, <3>2
  <2> QED BY <1>2, <2>1, <2>3, <2>4 DEF ExposeApp
<1>3. ASSUME NEW h \in Hostnames, NEW k \in Containers PROVE ~ExposeFails(h, k)
  <2>1. [target EXCEPT ![h] = k] \in Routes
    BY DEF Routes
  <2> QED BY <1>1, <2>1, GeneratedConf DEF ExposeFails
<1>4. ASSUME NEW h \in Hostnames, NEW d \in BOOLEAN, RemoveRoute(h, d)
      PROVE  /\ target' \in Routes
             /\ Apply(Generated(target', certs'))
             /\ \A g \in Hostnames : target'[g] \in connected' \cup {None}
             /\ UNCHANGED <<certs, inserted>> /\ target'[TlsHost] \in {target[TlsHost], None}
  <2>1. /\ target' \in Routes /\ target' = [target EXCEPT ![h] = None]
        /\ UNCHANGED <<certs, inserted>>
    BY <1>4 DEF RemoveRoute, Routes
  <2>2. \A g \in Hostnames \ {h} : target[g] \in connected' \cup {None}
    BY <1>4 DEF RemoveRoute, Disconnects, LastRoute
  <2>3. \A g \in Hostnames : target'[g] \in connected' \cup {None}
    BY <2>1, <2>2 DEF Routes
  <2>4. Apply(Generated(target', certs'))
    BY <1>4, <2>1 DEF RemoveRoute
  <2> QED BY <2>1, <2>3, <2>4, IngressAssumption DEF Routes
<1>5. ASSUME NEW h \in Hostnames, NEW d \in BOOLEAN PROVE ~RemoveFails(h, d)
  <2>1. [target EXCEPT ![h] = None] \in Routes
    BY DEF Routes
  <2> QED BY <1>1, <2>1, GeneratedConf DEF RemoveFails
<1>6. ASSUME RegenerateNginxConfig
      PROVE  /\ target' \in Routes
             /\ Apply(Generated(target', certs'))
             /\ \A g \in Hostnames : target'[g] \in connected' \cup {None}
             /\ UNCHANGED <<certs, inserted>> /\ target'[TlsHost] \in {target[TlsHost], None}
  <2>1. UNCHANGED <<target, certs, inserted, connected>>
    BY <1>6 DEF RegenerateNginxConfig, rows
  <2>2. Apply(Generated(target, certs))
    BY <1>1, <1>6, GeneratedConf DEF RegenerateNginxConfig
  <2> QED BY <2>1, <2>2
<1> QED BY <1>2, <1>3, <1>4, <1>5, <1>6 DEF RouteStep

LEMMA RouteServes ==
  ASSUME CoreInv, ServingInv, RouteStep,
         Lags(Holding # {} \/ (inserted' # inserted /\ Rows(certs) # {})),
         UNCHANGED request, InStep'
  PROVE  AloneInv' /\ StageInv' /\ (Deploying' = {} => Serves(box', target', certs'))
<1>1. IngressTypeOK /\ RowInv
  BY DEF CoreInv, CertificatesTypeOK
<1>2. /\ UNCHANGED config /\ box'.chain = box.chain /\ box'.key = box.key
  BY <1>1, RouteTypes
<1>3. InStep /\ Holding = {} /\ faults' = faults /\ (inserted' # inserted => Rows(certs) = {})
  BY <1>2 DEF InStep, Lags
<1>4. AloneInv /\ StageInv /\ (Deploying = {} => Serves(box, target, certs))
  BY <1>3 DEF ServingInv
<1>5. /\ target' \in Routes
      /\ Apply(Generated(target', certs'))
      /\ \A h \in Hostnames : target'[h] \in connected' \cup {None}
      /\ \/ UNCHANGED <<certs, inserted>> /\ target'[TlsHost] \in {target[TlsHost], None}
         \/ inserted' # inserted /\ certs' = Inserted(TlsHost) /\ inserted < MaxCerts
  BY <1>1, <1>3, <1>4, RouteReached DEF InStep, AloneInv
<1>6. UnderWay' = UnderWay /\ Deploying' = Deploying /\ Holding' = {}
  BY <1>3 DEF UnderWay, Deploying, Holding
<1>7. CASE UNCHANGED <<certs, inserted>> /\ target'[TlsHost] \in {target[TlsHost], None}
  <2>1. AloneInv'
    BY <1>4, <1>5, <1>6, <1>7 DEF AloneInv
  <2>2. ASSUME Deploying = {}, target'[TlsHost] # None, HasActive(certs)
        PROVE  box.chain # 0 /\ box.chain = box.key /\ box.key = certs[First(certs)].issue
    BY <1>1, <1>4, <1>7, <2>2, ActiveRow DEF Serves, AloneInv
  <2>3. Deploying = {} => Serves(box', target', certs')
    BY <1>1, <1>5, <1>7, <2>2, AppliedServes
  <2>4. StageInv'
    <3>1. \A t \in Deploying : t \notin Holding /\ request[t].pc # "reload"
      BY <1>3 DEF Deploying, Holding
    <3> QED BY <1>2, <1>4, <1>6, <3>1 DEF StageInv
  <2> QED BY <1>6, <2>1, <2>3, <2>4
<1>8. CASE inserted' # inserted /\ certs' = Inserted(TlsHost) /\ inserted < MaxCerts
  <2>1. /\ Rows(certs) = {} /\ inserted + 1 \in CertIds
        /\ certs' = [certs EXCEPT ![inserted + 1] = [status |-> "PENDING", issue |-> 0]]
    BY <1>1, <1>3, <1>8, IngressAssumption DEF Inserted, IngressTypeOK, CertIds
  <2>2. UnderWay = {} /\ Deploying = {}
    <3>1. \A t \in UnderWay : request[t].id \in CertIds /\ request[t].row # None
      BY DEF UnderWay, CoreInv, CertificatesTypeOK, Request
    <3>2. UnderWay = {}
      BY <1>4, <2>1, <3>1 DEF AloneInv, Rows
    <3> QED BY <3>2 DEF UnderWay, Deploying
  <2>3. \A c \in Rows(certs') : c = inserted + 1
    BY <2>1 DEF Rows
  <2>4. ~HasActive(certs')
    <3>1. ASSUME NEW c \in Rows(certs') PROVE First(certs') = c /\ certs'[c].status = "PENDING"
      BY <1>1, <2>1, <2>3, OnlyRow DEF IngressTypeOK
    <3> QED BY <3>1 DEF HasActive
  <2>5. Serves(box', target', certs')
    BY <1>1, <1>5, <2>4, AppliedServes
  <2>6. AloneInv'
    BY <1>5, <1>6, <2>2, <2>3 DEF AloneInv
  <2> QED BY <1>6, <2>2, <2>5, <2>6 DEF StageInv
<1> QED BY <1>5, <1>7, <1>8

\* The first request shows no ACTIVE row while it is under way.
LEMMA BeginServes ==
  ASSUME CoreInv, ServingInv, NEW t \in Requests, NEW c \in CertIds, Begin(t, c),
         Lags(UnderWay # {}), InStep'
  PROVE  AloneInv' /\ StageInv' /\ (Deploying' = {} => Serves(box', target', certs'))
<1>1. /\ UNCHANGED <<config, target, box, connected>>
      /\ \A d \in CertIds : d # c => certs'[d] = certs[d]
      /\ certs[c] # None /\ certs'[c] # None /\ certs'[c].status = "PENDING"
      /\ certs'[c] = [certs[c] EXCEPT !.status = "PENDING"]
  <2>1. [certs[c] EXCEPT !.status = "PENDING"] \in Cert
        /\ [certs[c] EXCEPT !.status = "PENDING"].status = "PENDING"
    <3>1. certs[c] \in Cert
      BY DEF Begin, CoreInv, CertificatesTypeOK, IngressTypeOK
    <3> QED BY <3>1 DEF Cert
  <2> QED BY <2>1, NoneAssumption DEF Begin, host, CoreInv, CertificatesTypeOK, IngressTypeOK
<1>2. InStep /\ UnderWay = {} /\ Deploying = {}
  BY <1>1 DEF InStep, Lags, UnderWay, Deploying
<1>3. AloneInv /\ Serves(box, target, certs)
  BY <1>2 DEF ServingInv
<1>4. Rows(certs') = Rows(certs) /\ c \in Rows(certs)
  BY <1>1 DEF Rows
<1>5. /\ request'[t].pc = "order" /\ request'[t].id = c /\ request'[t].row = certs'[c]
      /\ \A u \in Requests \ {t} : request'[u] = request[u]
  <2> DEFINE row == [certs[c] EXCEPT !.status = "PENDING"]
  <2>1. /\ request' = [request EXCEPT ![t] =
             [Idle EXCEPT !.pc = "order", !.id = c, !.row = row, !.config = config]]
        /\ request \in [Requests -> Request] /\ certs'[c] = row
    BY <1>1 DEF Begin, CoreInv, CertificatesTypeOK
  <2> HIDE DEF row
  <2> QED BY <2>1 DEF Idle
<1>6. UnderWay' = {t} /\ Deploying' = {}
  BY <1>2, <1>5 DEF UnderWay, Deploying
<1>7. AloneInv' /\ StageInv'
  BY <1>1, <1>3, <1>4, <1>5, <1>6 DEF AloneInv, StageInv
<1>8. target[TlsHost] # None => ~HasActive(certs')
  <2> SUFFICES ASSUME target[TlsHost] # None PROVE ~HasActive(certs')
    OBVIOUS
  <2>1. \A d, e \in Rows(certs') : d = e
    BY <1>3, <1>4 DEF AloneInv
  <2>2. First(certs') = c
    BY <1>4, <2>1, OnlyRow
  <2> QED BY <1>1, <2>2 DEF HasActive
<1> QED BY <1>1, <1>3, <1>7, <1>8 DEF Serves

LEMMA RestartServes ==
  ASSUME CoreInv, ServingInv, Restart, Lags(FALSE), InStep'
  PROVE  AloneInv' /\ StageInv' /\ Serves(box', target', certs')
<1>1. UNCHANGED <<config, target, certs, box, connected>>
  BY DEF Restart, rows, host
<1>2. InStep /\ Deploying = {}
  BY <1>1, FaultsType DEF InStep, Lags, Restart, CoreInv, CertificatesTypeOK
<1>3. AloneInv /\ Serves(box, target, certs)
  BY <1>2 DEF ServingInv
<1>4. UnderWay' = {} /\ Deploying' = {}
  BY DEF Restart, UnderWay, Deploying, Idle
<1>5. AloneInv' /\ StageInv'
  BY <1>1, <1>3, <1>4 DEF AloneInv, StageInv
<1> QED BY <1>1, <1>3, <1>5

\* A transaction on a row while no request is under way.
LEMMA AdministeredAlone ==
  ASSUME CoreInv, ServingInv, NEW c \in CertIds, NEW fits \in BOOLEAN,
         DeleteCertificate(c) \/ UploadCertificate(c, fits),
         NEW more \in BOOLEAN, Lags(UnderWay # {} \/ more), InStep'
  PROVE  /\ UNCHANGED <<config, target, connected, request>>
         /\ InStep /\ UnderWay = {} /\ faults' = faults /\ ~Faults(TRUE) /\ ~more
         /\ IngressTypeOK /\ box \in Box /\ Deploying = {}
         /\ AloneInv /\ Serves(box, target, certs)
         /\ Executes(config.box)
         /\ \A d \in CertIds : d # c => certs'[d] = certs[d]
         /\ Rows(certs') \subseteq Rows(certs) /\ c \in Rows(certs)
         /\ AloneInv' /\ StageInv'
<1>2. UNCHANGED <<config, target, connected, request>>
  BY DEF DeleteCertificate, UploadCertificate
<1>3. /\ InStep /\ UnderWay = {} /\ faults' = faults /\ ~Faults(TRUE) /\ ~more
      /\ IngressTypeOK /\ box \in Box
  BY <1>2, FaultsType DEF InStep, Lags, CoreInv, CertificatesTypeOK, IngressTypeOK
<1>4. Deploying = {} /\ UnderWay' = {} /\ Deploying' = {}
  BY <1>2, <1>3 DEF UnderWay, Deploying
<1>5. AloneInv /\ Serves(box, target, certs)
  BY <1>3, <1>4 DEF ServingInv
<1>6. Executes(config.box)
  BY <1>3 DEF CoreInv, PlaceInv, InStep, IngressTypeOK, Executes
<1>7. \A d \in CertIds : d # c => certs'[d] = certs[d]
  <2>1. certs \in [CertIds -> Cert \cup {None}]
    BY <1>3 DEF IngressTypeOK
  <2>2. CASE DeleteCertificate(c)
    BY <2>1, <2>2 DEF DeleteCertificate
  <2>3. CASE UploadCertificate(c, fits)
    <3>1. certs' = [certs EXCEPT ![c] = [status |-> "ACTIVE", issue |-> issued']]
      BY <2>3 DEF UploadCertificate
    <3> QED BY <2>1, <3>1
  <2> QED BY <2>2, <2>3
<1>8. Rows(certs') \subseteq Rows(certs) /\ c \in Rows(certs)
  BY <1>7 DEF DeleteCertificate, UploadCertificate, Rows
<1>9. AloneInv' /\ StageInv'
  BY <1>2, <1>4, <1>5, <1>8 DEF AloneInv, StageInv
<1> QED BY <1>2, <1>3, <1>4, <1>5, <1>6, <1>7, <1>8, <1>9

LEMMA AdministerServes ==
  ASSUME CoreInv, ServingInv, NEW c \in CertIds, DeleteCertificate(c), Lags(UnderWay # {}), InStep'
  PROVE  AloneInv' /\ StageInv' /\ Serves(box', target', certs')
<1>1. Lags(UnderWay # {} \/ FALSE)
  BY DEF Lags
<1>2. /\ UNCHANGED <<config, target, connected, request>>
      /\ ~Faults(TRUE) /\ IngressTypeOK /\ box \in Box
      /\ AloneInv /\ Serves(box, target, certs) /\ Executes(config.box)
      /\ Rows(certs') \subseteq Rows(certs) /\ c \in Rows(certs)
      /\ AloneInv' /\ StageInv'
  BY <1>1, AdministeredAlone
<1>3. box' = [box EXCEPT !.chain = 0, !.key = 0] /\ certs' = [certs EXCEPT ![c] = None]
  BY <1>2 DEF DeleteCertificate
<1>4. box'.serves = box.serves
  BY <1>2, <1>3 DEF Box
<1>5. target[TlsHost] # None => Rows(certs') = {}
  BY <1>2, <1>3 DEF AloneInv, Rows, IngressTypeOK
<1> QED BY <1>2, <1>4, <1>5 DEF Serves, HasActive

\* A key that fits is served with its certificate.
LEMMA UploadServes ==
  ASSUME CoreInv, ServingInv, NEW c \in CertIds, NEW fits \in BOOLEAN,
         UploadCertificate(c, fits), Lags(UnderWay # {} \/ ~fits), InStep'
  PROVE  AloneInv' /\ StageInv' /\ Serves(box', target', certs')
<1>1. /\ UNCHANGED <<config, target, connected, request>>
      /\ ~Faults(TRUE) /\ fits /\ IngressTypeOK /\ box \in Box
      /\ AloneInv /\ Serves(box, target, certs) /\ Executes(config.box)
      /\ Rows(certs') \subseteq Rows(certs) /\ c \in Rows(certs)
      /\ AloneInv' /\ StageInv'
  BY AdministeredAlone
<1>2. issued' \in Nat /\ issued' # 0
  BY DEF UploadCertificate, CoreInv, CertificatesTypeOK
<1>3. PICK n \in Nat, conf \in Conf : n = issued' /\ conf = Generated(target, certs')
  BY <1>1, <1>2, GeneratedConf DEF IngressTypeOK
<1> DEFINE written == Uploaded(n, n, conf)
<1>4. /\ box' = Reloaded(written, connected)
      /\ certs' = [certs EXCEPT ![c] = [status |-> "ACTIVE", issue |-> n]]
  BY <1>1, <1>3 DEF UploadCertificate, Filed, Uploaded
<1>5. certs'[c].issue = n /\ n # 0
  BY <1>1, <1>2, <1>3, <1>4 DEF IngressTypeOK
<1>6. /\ written \in Box /\ written.file = Generated(target, certs')
      /\ written.chain = n /\ written.key = n
  BY <1>1, <1>3, UploadBoxes
<1> HIDE DEF written
<1>7. ASSUME target[TlsHost] # None, HasActive(certs')
      PROVE  written.chain # 0 /\ written.chain = written.key /\ written.key = certs'[First(certs')].issue
  <2>1. \A d, e \in Rows(certs') : d = e
    BY <1>1, <1>7 DEF AloneInv
  <2>2. First(certs') = c
    <3>1. c \in Rows(certs')
      BY <1>1, <1>7, <2>1 DEF AloneInv, HasActive
    <3> QED BY <2>1, <3>1, OnlyRow
  <2> QED BY <1>5, <1>6, <2>2
<1>8. Serves(Reloaded(written, connected), target, certs')
  BY <1>1, <1>6, <1>7, LoadsGenerated DEF AloneInv, IngressTypeOK
<1> QED BY <1>1, <1>4, <1>8

\* The only request saves its row, in step with what is stored.
LEMMA SavingServes ==
  ASSUME CoreInv, ServingInv, NEW t \in Requests, Proceed(t) \/ Issue(t) \/ Fail(t),
         Lags(FALSE), InStep'
  PROVE  AloneInv' /\ StageInv' /\ (Deploying' = {} => Serves(box', target', certs'))
<1>1. /\ UNCHANGED <<config, target, box, connected>>
      /\ t \in UnderWay /\ t \notin Deploying
      /\ request[t] \in Request /\ request[t].id \in CertIds /\ request[t].row \in Cert
  BY DEF Proceed, Issue, Fail, rowOnly, host, At, UnderWay, Deploying, CoreInv, CertificatesTypeOK,
     Request
<1>2. InStep
  BY <1>1 DEF InStep, Lags
<1>3. AloneInv /\ UnderWay = {t}
  BY <1>1, <1>2 DEF ServingInv, AloneInv
<1>4. Deploying = {} /\ Serves(box, target, certs)
  BY <1>1, <1>2, <1>3 DEF ServingInv, Deploying, UnderWay
<1> DEFINE c == request[t].id
<1>5. c \in Rows(certs) /\ certs[c] = request[t].row
  BY <1>1, <1>3, NoneAssumption DEF AloneInv, Rows
<1>6. ASSUME NEW row \in Cert, NEW pc, Saves(t, row, pc)
      PROVE  /\ certs' = [certs EXCEPT ![c] = row]
             /\ request' = [request EXCEPT ![t] = IF pc = "idle" THEN Idle
                                                  ELSE [@ EXCEPT !.pc = pc, !.row = row]]
  BY <1>5, <1>6 DEF Saves, Rows
<1>7. ASSUME NEW row \in Cert, NEW pc \in {"issue", "chain"}, Saves(t, row, pc)
      PROVE  /\ certs'[c] = row /\ \A d \in CertIds : d # c => certs'[d] = certs[d]
             /\ request'[t].pc = pc /\ request'[t].row = row /\ request'[t].id = c
             /\ \A u \in Requests \ {t} : request'[u] = request[u]
  <2> DEFINE new == [request[t] EXCEPT !.pc = pc, !.row = row]
  <2>1. new.pc = pc /\ new.row = row /\ new.id = c
    BY <1>1 DEF Request
  <2>2. request' = [request EXCEPT ![t] = new] /\ certs' = [certs EXCEPT ![c] = row]
    BY <1>6, <1>7
  <2> HIDE DEF new, c
  <2>3. c \in CertIds
    BY <1>1 DEF c
  <2> QED BY <2>1, <2>2, <2>3 DEF CoreInv, CertificatesTypeOK, IngressTypeOK
<1>8. ASSUME NEW row \in Cert, Saves(t, row, "idle")
      PROVE  /\ certs'[c] = row /\ \A d \in CertIds : d # c => certs'[d] = certs[d]
             /\ request'[t].pc = "idle"
             /\ \A u \in Requests \ {t} : request'[u] = request[u]
  <2>1. certs' = [certs EXCEPT ![c] = row] /\ request' = [request EXCEPT ![t] = Idle]
    BY <1>6, <1>8
  <2>2. c \in CertIds
    BY <1>1
  <2> HIDE DEF c
  <2> QED BY <2>1, <2>2 DEF CoreInv, CertificatesTypeOK, IngressTypeOK, Idle
<1> HIDE DEF c
<1>9. ASSUME NEW row \in Cert, certs'[c] = row, \A d \in CertIds : d # c => certs'[d] = certs[d],
             \A u \in Requests \ {t} : request'[u] = request[u],
             \/ request'[t].pc = "idle"
             \/ /\ request'[t].pc \in {"issue", "chain"}
                /\ request'[t].row = row /\ request'[t].id = c
      PROVE  AloneInv' /\ StageInv' /\ Rows(certs') = Rows(certs)
  <2>1. Rows(certs') = Rows(certs)
    BY <1>5, <1>9, NoneAssumption DEF Rows
  <2>2. /\ UnderWay' \subseteq {t}
        /\ \A u \in UnderWay' : certs'[request'[u].id] = request'[u].row
        /\ \A u \in Deploying' : request'[u].pc = "chain"
    BY <1>3, <1>9 DEF UnderWay, Deploying
  <2>3. AloneInv'
    BY <1>1, <1>3, <2>1, <2>2 DEF AloneInv
  <2>4. StageInv'
    BY <2>2 DEF StageInv, Holding
  <2> QED BY <2>1, <2>3, <2>4
<1>10. CASE Proceed(t)
  <2>1. Saves(t, request[t].row, "issue")
    BY <1>10 DEF Proceed
  <2>2. AloneInv' /\ StageInv'
    BY <1>1, <1>7, <1>9, <2>1
  <2>3. certs' = certs
    <3>1. certs' = [certs EXCEPT ![c] = certs[c]]
      BY <1>1, <1>5, <1>6, <2>1
    <3> QED BY <3>1 DEF CoreInv, CertificatesTypeOK, IngressTypeOK
  <2> QED BY <1>1, <1>4, <2>2, <2>3
<1>11. CASE Issue(t)
  <2> DEFINE row == [status |-> "ACTIVE", issue |-> issued']
  <2>1. row \in Cert
    BY <1>11 DEF Issue, Cert, CoreInv, CertificatesTypeOK
  <2>2. Saves(t, row, "chain")
    BY <1>11 DEF Issue
  <2> HIDE DEF row
  <2>3. AloneInv' /\ StageInv'
    BY <1>7, <1>9, <2>1, <2>2
  <2>4. t \in Deploying'
    BY <1>7, <2>1, <2>2 DEF Deploying
  <2> QED BY <2>3, <2>4
<1>12. CASE Fail(t)
  <2> DEFINE row == [request[t].row EXCEPT !.status = "ERROR"]
  <2>1. row \in Cert /\ row.status = "ERROR"
    BY <1>1 DEF Cert
  <2>2. Saves(t, row, "idle")
    BY <1>12 DEF Fail
  <2> HIDE DEF row
  <2>3. AloneInv' /\ StageInv' /\ Rows(certs') = Rows(certs) /\ certs'[c] = row
    BY <1>8, <1>9, <2>1, <2>2
  <2>4. ASSUME target[TlsHost] # None PROVE ~HasActive(certs')
    <3>1. \A d, e \in Rows(certs') : d = e
      BY <1>3, <2>3, <2>4 DEF AloneInv
    <3>2. First(certs') = c
      BY <1>5, <2>3, <3>1, OnlyRow
    <3> QED BY <2>1, <2>3, <3>2 DEF HasActive
  <2> QED BY <1>1, <1>4, <2>3, <2>4 DEF Serves
<1> QED BY <1>10, <1>11, <1>12

\* The only request deploys what is stored, command by command.
LEMMA DeployServes ==
  ASSUME CoreInv, ServingInv, NEW t \in Requests, DeployStep(t) \/ SaveConfig(t),
         Lags(FALSE), InStep', SaveConfig(t) /\ ~overtaken => config' = config
  PROVE  AloneInv' /\ StageInv' /\ (Deploying' = {} => Serves(box', target', certs'))
<1>1. /\ UNCHANGED <<config, target, certs, connected, overtaken>>
      /\ ~overtaken
  <2>1. ~overtaken /\ overtaken' = overtaken
    BY DEF InStep, Lags
  <2>2. CASE DeployStep(t)
    BY <2>1, <2>2 DEF DeployStep, PutChain, PutKey, ReadRoutes, ReadCerts, WriteConfig, Reload, CommandFails, boxOnly,
       rows, host
  <2>3. CASE SaveConfig(t)
    BY <2>1, <2>3 DEF SaveConfig, host
  <2> QED BY <2>1, <2>2, <2>3
<1>2. InStep /\ IngressTypeOK /\ box \in Box /\ target \in Routes
  BY <1>1 DEF InStep, Lags, CoreInv, CertificatesTypeOK, IngressTypeOK
<1>3. /\ t \in UnderWay /\ t \in Deploying /\ request[t] \in Request /\ request \in [Requests -> Request]
      /\ request[t].config = config
      /\ request[t].row.status = "ACTIVE" /\ request[t].row.issue # 0 /\ request[t].row \in Cert
  <2>1. t \in UnderWay /\ t \in Deploying
    BY DEF DeployStep, PutChain, PutKey, ReadRoutes, ReadCerts, WriteConfig, Reload, CommandFails, SaveConfig, At,
       Deploying, UnderWay
  <2> QED BY <1>1, <2>1 DEF CoreInv, CertificatesTypeOK, HeldInv, RowInv, Request, UnderWay
<1>4. AloneInv /\ StageInv /\ UnderWay = {t}
  BY <1>2, <1>3 DEF ServingInv, AloneInv
<1>5. ~CommandFails(t)
  <2>1. box.id = config.box /\ config.box # 0
    BY <1>1, <1>2 DEF CoreInv, PlaceInv, InStep, IngressTypeOK
  <2>2. Reaches(t)
    BY <1>3, <2>1 DEF Reaches, Executes
  <2>3. faults' = faults
    BY DEF Lags, InStep
  <2> QED BY <1>2, <2>2, <2>3, FaultsType DEF CommandFails
<1>6. ASSUME \A u \in Requests \ {t} : request'[u] = request[u],
             \/ request'[t].pc = "idle"
             \/ request'[t].id = request[t].id /\ request'[t].row = request[t].row
      PROVE  AloneInv'
  <2>1. UnderWay' \subseteq {t}
    BY <1>4, <1>6 DEF UnderWay
  <2>2. \A u \in UnderWay' : certs'[request'[u].id] = request'[u].row
    BY <1>1, <1>3, <1>4, <1>6, <2>1 DEF AloneInv, UnderWay
  <2> QED BY <1>1, <1>4, <2>1, <2>2 DEF AloneInv
<1>7. ASSUME NEW pc \in {"key", "routes", "write", "reload"}, Goes(t, pc)
      PROVE  /\ request'[t].pc = pc /\ request'[t].id = request[t].id
             /\ request'[t].row = request[t].row /\ request'[t].conf = request[t].conf
             /\ \A u \in Requests \ {t} : request'[u] = request[u]
             /\ Deploying' = {t}
  <2>1. /\ request'[t].pc = pc /\ request'[t].id = request[t].id
        /\ request'[t].row = request[t].row /\ request'[t].conf = request[t].conf
        /\ \A u \in Requests \ {t} : request'[u] = request[u]
    BY <1>3, <1>7 DEF Goes, Request
  <2>2. Deploying' = {t}
    BY <1>4, <2>1 DEF Deploying, UnderWay
  <2> QED BY <2>1, <2>2
<1>8. CASE PutChain(t)
  <2>1. Goes(t, "key") /\ box' = [box EXCEPT !.chain = request[t].row.issue]
    BY <1>8 DEF PutChain
  <2>2. box'.chain = request[t].row.issue
    BY <1>2, <2>1 DEF Box
  <2>3. StageInv'
    BY <1>7, <2>1, <2>2 DEF StageInv, Holding
  <2> QED BY <1>6, <1>7, <2>1, <2>3
<1>9. CASE PutKey(t)
  <2>1. Goes(t, "routes") /\ box' = [box EXCEPT !.key = request[t].row.issue] /\ request[t].pc = "key"
    BY <1>9 DEF PutKey, At
  <2>2. box'.key = request[t].row.issue /\ box'.chain = box.chain
    BY <1>2, <2>1 DEF Box
  <2>3. StageInv'
    BY <1>3, <1>4, <1>7, <2>1, <2>2 DEF StageInv, Holding
  <2> QED BY <1>6, <1>7, <2>1, <2>3
<1>10. CASE ReadRoutes(t)
  <2> DEFINE new == [request[t] EXCEPT !.pc = "certs", !.routes = target]
  <2>1. request' = [request EXCEPT ![t] = new] /\ box' = box /\ request[t].pc = "routes"
    BY <1>10 DEF ReadRoutes, At
  <2>2. /\ new.pc = "certs" /\ new.row = request[t].row /\ new.id = request[t].id
        /\ new.routes = target
    BY <1>3 DEF Request
  <2> HIDE DEF new
  <2>3. request'[t] = new /\ \A u \in Requests \ {t} : request'[u] = request[u]
    BY <1>3, <2>1
  <2>4. Deploying' = {t}
    BY <1>4, <2>2, <2>3 DEF Deploying, UnderWay
  <2>5. StageInv'
    BY <1>1, <1>3, <1>4, <2>1, <2>2, <2>3, <2>4 DEF StageInv
  <2> QED BY <1>6, <2>2, <2>3, <2>4, <2>5
<1>14. CASE ReadCerts(t)
  <2> DEFINE conf == Generated(request[t].routes, certs)
             new == [request[t] EXCEPT !.pc = "save", !.conf = conf]
  <2>1. request' = [request EXCEPT ![t] = new] /\ box' = box /\ request[t].pc = "certs"
    BY <1>14 DEF ReadCerts, At
  <2>2. conf = Generated(target, certs)
    BY <1>3, <1>4, <2>1 DEF StageInv, Holding, UnderWay
  <2> HIDE DEF conf
  <2>3. /\ new.pc = "save" /\ new.row = request[t].row /\ new.id = request[t].id
        /\ new.conf = conf
    BY <1>3 DEF Request
  <2> HIDE DEF new
  <2>4. request'[t] = new /\ \A u \in Requests \ {t} : request'[u] = request[u]
    BY <1>3, <2>1
  <2>5. Deploying' = {t}
    BY <1>4, <2>3, <2>4 DEF Deploying, UnderWay
  <2>6. StageInv'
    BY <1>1, <1>3, <1>4, <2>1, <2>2, <2>3, <2>4, <2>5 DEF StageInv
  <2> QED BY <1>6, <2>3, <2>4, <2>5, <2>6
<1>11. CASE SaveConfig(t)
  <2>1. Goes(t, "write") /\ box' = box /\ request[t].pc = "save"
    BY <1>11 DEF SaveConfig, At, host
  <2>2. StageInv'
    BY <1>1, <1>3, <1>4, <1>7, <2>1 DEF StageInv, Holding
  <2> QED BY <1>6, <1>7, <2>1, <2>2
<1>12. CASE WriteConfig(t)
  <2>1. Goes(t, "reload") /\ box' = Written(box, request[t].conf) /\ t \in Holding
        /\ request[t].pc = "write"
    BY <1>3, <1>12 DEF WriteConfig, At, Holding
  <2>2. request[t].conf \in Conf
    BY <2>1 DEF CoreInv, RowInv, Knows
  <2>3. box'.file = request[t].conf /\ box'.chain = box.chain /\ box'.key = box.key
    BY <1>2, <2>1, <2>2, WrittenBox
  <2>4. StageInv'
    BY <1>1, <1>3, <1>4, <1>7, <2>1, <2>3 DEF StageInv
  <2> QED BY <1>6, <1>7, <2>1, <2>4
<1>13. CASE Reload(t)
  <2>1. Ends(t) /\ box' = Reloaded(box, connected) /\ t \in Holding /\ request[t].pc = "reload"
    BY <1>3, <1>13 DEF Reload, At, Holding
  <2>2. request'[t].pc = "idle" /\ \A u \in Requests \ {t} : request'[u] = request[u]
    BY <1>3, <2>1 DEF Ends, Idle
  <2>3. Deploying' = {}
    BY <1>4, <2>2 DEF Deploying, UnderWay
  <2>4. /\ box.file = Generated(target, certs)
        /\ box.chain = request[t].row.issue /\ box.key = request[t].row.issue
    BY <1>3, <1>4, <2>1 DEF StageInv
  <2>5. request[t].id \in Rows(certs) /\ certs[request[t].id] = request[t].row
    BY <1>3, <1>4, NoneAssumption DEF AloneInv, Rows, Request, CoreInv, CertificatesTypeOK, UnderWay
  <2>6. target[TlsHost] # None => First(certs) = request[t].id
    BY <1>4, <2>5, OnlyRow DEF AloneInv
  <2>7. Serves(Reloaded(box, connected), target, certs)
    BY <1>2, <1>3, <1>4, <2>4, <2>5, <2>6, LoadsGenerated DEF AloneInv
  <2>8. StageInv'
    BY <2>3 DEF StageInv
  <2> QED BY <1>1, <1>6, <2>1, <2>2, <2>7, <2>8
<1> QED BY <1>5, <1>8, <1>9, <1>10, <1>11, <1>12, <1>13, <1>14 DEF DeployStep

LEMMA ServingStep == CoreInv /\ ServingInv /\ [CertificatesNext]_vars => ServingInv'
<1> SUFFICES ASSUME CoreInv, ServingInv, [CertificatesNext]_vars, InStep'
             PROVE  AloneInv' /\ StageInv' /\ (Deploying' = {} => Serves(box', target', certs'))
  BY DEF ServingInv
<1>1. CASE /\ Lifecycle
           /\ overtaken' = (UnderWay # {} \/ (overtaken /\ config'.status # "ENABLED"))
           /\ lagging' = (target # NoRoutes)
           /\ UNCHANGED <<request, issued>>
  BY <1>1, LifecycleServes
<1>2. CASE /\ RouteStep
           /\ Lags(Holding # {} \/ (inserted' # inserted /\ Rows(certs) # {}))
           /\ UNCHANGED <<request, issued>>
  BY <1>2, RouteServes
<1>3. CASE \E t \in Requests, c \in CertIds : Begin(t, c) /\ Lags(UnderWay # {})
  BY <1>3, BeginServes
<1>4. CASE \E t \in Requests : RequestStep(t) /\ Lags(FALSE)
  <2>1. PICK t \in Requests : RequestStep(t) /\ Lags(FALSE)
    BY <1>4
  <2>2. UNCHANGED overtaken /\ lagging' \in BOOLEAN
    BY <2>1 DEF Lags, CoreInv, CertificatesTypeOK
  <2>3. CASE Proceed(t) \/ Issue(t) \/ Fail(t)
    BY <2>1, <2>3, SavingServes
  <2>4. CASE DeployStep(t) \/ SaveConfig(t)
    <3>1. SaveConfig(t) /\ ~overtaken => config' = config
      BY <2>2, SaveConfigCore
    <3> QED BY <2>1, <2>4, <3>1, DeployServes
  <2> QED BY <2>1, <2>3, <2>4 DEF RequestStep, DeployStep
<1>5. CASE Restart /\ Lags(FALSE)
  BY <1>5, RestartServes
<1>6. CASE \/ \E c \in CertIds : DeleteCertificate(c) /\ Lags(UnderWay # {})
           \/ \E c \in CertIds, fits \in BOOLEAN :
                UploadCertificate(c, fits) /\ Lags(UnderWay # {} \/ ~fits)
  BY <1>6, AdministerServes, UploadServes
<1>7. CASE UNCHANGED vars
  BY <1>7 DEF vars, ingress, rows, host, InStep, ServingInv, AloneInv, StageInv, UnderWay, Deploying,
     Holding
<1> QED BY <1>1, <1>2, <1>3, <1>4, <1>5, <1>6, <1>7 DEF CertificatesNext

-----------------------------------------------------------------------------
(* The theorems.                                                           *)

LEMMA CertificatesInvInit == CertificatesInit => CertificatesInv
<1> SUFFICES ASSUME CertificatesInit PROVE CertificatesInv
  OBVIOUS
<1>1. ServingInv
  BY DEF CertificatesInit, Init, ServingInv, InStep
<1> QED BY <1>1, CoreInit DEF CertificatesInv, CoreInv

LEMMA CertificatesInvStep == CertificatesInv /\ [CertificatesNext]_vars => CertificatesInv'
  BY CoreStep, ServingStep DEF CertificatesInv, CoreInv

\* The inductive invariant of rows, host and requests.
THEOREM CertificatesInvariance == CertificatesSpec => []CertificatesInv
  BY CertificatesInvInit, CertificatesInvStep, PTL DEF CertificatesSpec

\* Rows, container, network and requests keep their types; a network that is gone
\* connects nothing, and an ENABLED configuration names its container.
THEOREM CertificatesTypeCorrect == CertificatesSpec => []CertificatesTypeOK
<1>1. CertificatesInv => CertificatesTypeOK
  BY DEF CertificatesInv
<1> QED BY <1>1, CertificatesInvariance, PTL

\* disableIngress leaves container or network behind only with the row saying ERROR,
\* which enables the next attempt, whatever routes and certificates there are.
THEOREM DisablingRemoves == CertificatesSpec => []DisabledIsGone
<1>1. CertificatesInv => DisabledIsGone
  BY DEF CertificatesInv
<1> QED BY <1>1, CertificatesInvariance, PTL

\* Between deployments, nginx serves the stored routes and the ACTIVE certificate,
\* except after what the property lists: exposeApp, removeRoute, uploads with a key
\* that fits, deletions and the reads and commands of deployCertificateToNginx keep
\* it so in any order that the list leaves.
THEOREM StoredIsServed == CertificatesSpec => []ServesWhatIsStored
<1>1. CertificatesInv => ServesWhatIsStored
  BY DEF CertificatesInv, ServingInv, InStep, Serves, ServesWhatIsStored
<1> QED BY <1>1, CertificatesInvariance, PTL
=============================================================================
