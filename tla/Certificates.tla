----------------------------- MODULE Certificates -----------------------------
(***************************************************************************)
(* CertificateService beside IngressService: requests for a certificate    *)
(* run for minutes in threads of their own, without a transaction.         *)
(*                                                                         *)
(* A request loads the certificate's row and the row of IngressConfig when *)
(* it begins, and every save writes the whole row as it was loaded.  The   *)
(* first request, a retry and a renewal, by hand or by the scheduler, do   *)
(* the same to a row.                                                      *)
(***************************************************************************)
EXTENDS Ingress

CONSTANTS Requests,  \* bound: requests under way at a time
          MaxIssues  \* bound: certificates issued or uploaded

VARIABLES
  request,    \* the threads
  issued,     \* how many certificates there have been
  overtaken,  \* history: disabled, or enabled, under a request
  lagging     \* history: what was applied may differ from what is stored

vars == <<ingress, request, issued, overtaken, lagging>>

Idle == [pc |-> "idle", id |-> 0, row |-> None, config |-> None, routes |-> None, conf |-> None]

Request ==
  [pc : {"idle", "order", "issue", "chain", "key", "routes", "certs", "save", "write", "reload"},
   id : CertIds \cup {0}, row : Cert \cup {None}, config : Config \cup {None},
   routes : Routes \cup {None}, conf : Conf \cup {None}]

CertificatesTypeOK ==
  /\ IngressTypeOK
  /\ request \in [Requests -> Request]
  /\ \A t \in Requests : request[t].pc # "idle" =>
       request[t].id # 0 /\ request[t].row # None /\ request[t].config # None
  /\ issued \in Nat /\ overtaken \in BOOLEAN /\ lagging \in BOOLEAN

CertificatesInit ==
  /\ Init
  /\ request = [t \in Requests |-> Idle]
  /\ issued = 0 /\ overtaken = FALSE /\ lagging = FALSE

UnderWay == {t \in Requests : request[t].pc # "idle"}
At(t, pc) == request[t].pc = pc
Goes(t, pc) == request' = [request EXCEPT ![t].pc = pc]
Ends(t) == request' = [request EXCEPT ![t] = Idle]

Deploying == {t \in Requests : request[t].pc \notin {"idle", "order", "issue"}}

\* The routes have been read for a configuration that is not loaded yet.
Holding == {t \in Requests : request[t].pc \in {"certs", "save", "write", "reload"}}

-----------------------------------------------------------------------------
(* requestLetsEncryptCertificate.                                          *)

Begin(t, c) ==
  LET row == [certs[c] EXCEPT !.status = "PENDING"] IN
  /\ At(t, "idle") /\ certs[c] # None
  /\ certs' = [certs EXCEPT ![c] = row]
  /\ request' = [request EXCEPT ![t] =
       [Idle EXCEPT !.pc = "order", !.id = c, !.row = row, !.config = config]]
  /\ UNCHANGED <<config, target, inserted, host, faults, silent, issued>>

\* A row that is gone cannot be merged: the exception ends the thread, since the
\* catch block's save throws it once more.
Saves(t, row, pc) ==
  IF certs[request[t].id] = None
  THEN Ends(t) /\ UNCHANGED certs
  ELSE /\ certs' = [certs EXCEPT ![request[t].id] = row]
       /\ request' = [request EXCEPT ![t] = IF pc = "idle" THEN Idle
                                            ELSE [@ EXCEPT !.pc = pc, !.row = row]]

rowOnly == UNCHANGED <<config, target, inserted, host, faults, silent>>

\* The challenge, and the progress messages before and after it.
Proceed(t) ==
  /\ At(t, "order")
  /\ Saves(t, request[t].row, "issue")
  /\ rowOnly /\ UNCHANGED issued

Issue(t) ==
  /\ At(t, "issue") /\ issued < MaxIssues
  /\ issued' = issued + 1
  /\ Saves(t, [status |-> "ACTIVE", issue |-> issued'], "chain")
  /\ rowOnly

\* The order is refused, or is not ready after thirty looks at it.
Fail(t) ==
  /\ At(t, "order") \/ At(t, "issue")
  /\ Saves(t, [request[t].row EXCEPT !.status = "ERROR"], "idle")
  /\ rowOnly /\ UNCHANGED issued

-----------------------------------------------------------------------------
(* deployCertificateToNginx, in the container that the row named when the  *)
(* request began.                                                          *)

Reaches(t) == Executes(request[t].config.box)

boxOnly == UNCHANGED <<rows, boxes, network, connected, faults, silent, issued>>

PutChain(t) ==
  /\ At(t, "chain") /\ Reaches(t)
  /\ box' = [box EXCEPT !.chain = request[t].row.issue]
  /\ Goes(t, "key")
  /\ boxOnly

PutKey(t) ==
  /\ At(t, "key") /\ Reaches(t)
  /\ box' = [box EXCEPT !.key = request[t].row.issue]
  /\ Goes(t, "routes")
  /\ boxOnly

\* Two reads and the save, each in a transaction of its own.
ReadRoutes(t) ==
  /\ At(t, "routes")
  /\ request' = [request EXCEPT ![t].pc = "certs", ![t].routes = target]
  /\ UNCHANGED box /\ boxOnly

ReadCerts(t) ==
  /\ At(t, "certs")
  /\ request' = [request EXCEPT ![t].pc = "save",
                                ![t].conf = Generated(request[t].routes, certs)]
  /\ UNCHANGED box /\ boxOnly

\* A mutant: only the status is saved.
SaveConfig_StatusOnly(t) ==
  /\ At(t, "save")
  /\ config' = [config EXCEPT !.status = request[t].config.status]
  /\ Goes(t, "write")
  /\ UNCHANGED <<target, certs, inserted, host, faults, silent, issued>>

\* regenerateNginxConfig saves the configuration's row as the request loaded it.
SaveConfig(t) ==
  /\ At(t, "save")
  /\ config' = request[t].config
  /\ Goes(t, "write")
  /\ UNCHANGED <<target, certs, inserted, host, faults, silent, issued>>

WriteConfig(t) ==
  /\ At(t, "write") /\ Reaches(t)
  /\ box' = Written(box, request[t].conf)
  /\ Goes(t, "reload")
  /\ boxOnly

Reload(t) ==
  /\ At(t, "reload") /\ Reaches(t)
  /\ box' = Reloaded(box, connected)
  /\ Ends(t)
  /\ boxOnly

\* A command fails, for want of its container or of Docker: the deployment ends,
\* and nobody is told; at "routes", it is a chmod after the key was written.  A
\* configuration that cannot be written is reloaded all the same.
CommandFails(t) ==
  /\ request[t].pc \in {"chain", "key", "routes", "write", "reload"}
  /\ IF At(t, "write") THEN Goes(t, "reload") ELSE Ends(t)
  /\ Faults(Reaches(t))
  /\ UNCHANGED <<rows, host, silent, issued>>

\* The server stops: threads are lost, rows stay as they are.
Restart ==
  /\ UnderWay # {}
  /\ request' = [t \in Requests |-> Idle]
  /\ Faults(Deploying # {})
  /\ UNCHANGED <<rows, host, silent, issued>>

-----------------------------------------------------------------------------
(* Transactions on a certificate's row.                                    *)

\* The files of the hostname go, whichever row they are of.
DeleteCertificate(c) ==
  /\ certs[c] # None
  /\ certs' = [certs EXCEPT ![c] = None]
  /\ \/ /\ box' = IF Executes(config.box) THEN [box EXCEPT !.chain = 0, !.key = 0] ELSE box
        /\ UNCHANGED faults
     \/ UNCHANGED box /\ Faults(TRUE)
  /\ UNCHANGED <<config, target, inserted, boxes, network, connected, silent,
                 request, issued>>

\* Only the certificate is parsed: a private key that does not fit it is stored
\* and deployed as well.  The deployment is part of the transaction, its failure
\* is not.
UploadCertificate(c, fits) ==
  LET filed == [box EXCEPT !.chain = issued', !.key = IF fits THEN issued' ELSE 0]
      written == Written(filed, Generated(target, certs'))
  IN
  /\ certs[c] # None /\ issued < MaxIssues
  /\ issued' = issued + 1
  /\ certs' = [certs EXCEPT ![c] = [status |-> "ACTIVE", issue |-> issued']]
  /\ \/ /\ box' = IF Executes(config.box) THEN Reloaded(written, connected) ELSE box
        /\ UNCHANGED faults
     \/ /\ Executes(config.box) /\ Faults(TRUE)
        /\ box' \in {box, [box EXCEPT !.chain = issued'], filed, Reloaded(filed, connected), written}
  /\ UNCHANGED <<config, target, inserted, boxes, network, connected, silent,
                 request>>

-----------------------------------------------------------------------------
RequestStep(t) ==
  \/ Proceed(t) \/ Issue(t) \/ Fail(t)
  \/ PutChain(t) \/ PutKey(t)
  \/ ReadRoutes(t) \/ ReadCerts(t) \/ SaveConfig(t) \/ WriteConfig(t) \/ Reload(t)
  \/ CommandFails(t)

Lags(more) ==
  /\ lagging' = (lagging \/ more \/ faults' # faults)
  /\ UNCHANGED overtaken

\* Enabling starts with a new container: only routes stored before, whose containers
\* are in no network and whose certificate is in no file, are then not served.
CertificatesNext ==
  \/ /\ Lifecycle
     /\ overtaken' = (UnderWay # {} \/ (overtaken /\ config'.status # "ENABLED"))
     /\ lagging' = (target # NoRoutes)
     /\ UNCHANGED <<request, issued>>
  \/ /\ RouteStep
     /\ Lags(Holding # {} \/ (inserted' # inserted /\ Rows(certs) # {}))
     /\ UNCHANGED <<request, issued>>
  \/ \E t \in Requests, c \in CertIds : Begin(t, c) /\ Lags(UnderWay # {})
  \/ \E t \in Requests : RequestStep(t) /\ Lags(FALSE)
  \/ Restart /\ Lags(FALSE)
  \/ \E c \in CertIds : DeleteCertificate(c) /\ Lags(UnderWay # {})
  \/ \E c \in CertIds, fits \in BOOLEAN :
       UploadCertificate(c, fits) /\ Lags(UnderWay # {} \/ ~fits)

CertificatesSpec == CertificatesInit /\ [][CertificatesNext]_vars

-----------------------------------------------------------------------------
\* Once ingress is enabled, nginx serves the routes that are stored, each to its
\* container, and TlsHost with the certificate that its ACTIVE row holds, when no
\* certificate is being deployed (exposeApp, removeRoute, uploadCertificate,
\* deleteCertificate, deployCertificateToNginx).  Excepted is what has happened
\* since ingress was enabled last:
\*  - a call to Docker failed, or the server stopped during a deployment;
\*  - a route changed between a deployment's reading the routes and its reload;
\*  - a row was uploaded, deleted or requested again while a request was under way;
\*  - ingress was disabled or enabled while a request was under way;
\*  - the hostname got a second row, or a key that does not fit its certificate;
\* and an ingress that was enabled with routes stored already.
ServesWhatIsStored ==
  config.status = "ENABLED" /\ Deploying = {} /\ ~(lagging \/ overtaken) =>
    /\ box.serves.target = target
    /\ target[TlsHost] # None /\ HasActive(certs) =>
         /\ box.serves.tls
         /\ box.chain = box.key /\ box.key = certs[First(certs)].issue

\* When ingress is disabled, container and network are gone, whatever failed
\* before and however often it was tried: unless Docker did not even answer the
\* tests, or the row was written back by a request (disableIngress).
DisabledIsGone ==
  config.status = "DISABLED" /\ ~(silent \/ overtaken) => box = NoBox /\ ~network
=============================================================================
