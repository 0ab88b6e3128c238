------------------------------ MODULE NodeScan ------------------------------
(***************************************************************************)
(* NodeScanModal of src/web-installer/components/modals.jsx: the user      *)
(* scans for machines, selects some, has their SSH credentials verified    *)
(* and adds them to the list of nodes.                                     *)
(*                                                                         *)
(* Scans and verifications are calls: the page goes on while they are      *)
(* under way.  The web server answers them from the machines as they are   *)
(* (ListIP and PreCheckHost of pkg/web/handler/resources.go).  User name,  *)
(* method and secret are one credential; the search text is the set of     *)
(* addresses it shows.                                                     *)
(***************************************************************************)
EXTENDS Naturals, Sequences, Functions

CONSTANTS
  Ip, Port, None,
  FirstPort,            \* the port that the form starts with
  Cred,                 \* credentials the user may type
  Default,              \* what the form starts with: root and no secret
  Own,                  \* the user the server runs as and no secret
  Local,                \* the addresses of the server itself
  Accepts,              \* Accepts[<<ip, port>>]: the credentials let in by their secret
  ServerKeys,           \* and those without a key of their own that are let in by
                        \* one of the keys in the server's .ssh
  ScanKey,              \* the machines that the server's id_rsa opens for its own user
  Known,                \* the machines and ports in the inventories of the server
  Entry,                \* entries of the text: addresses and CIDR blocks
  Block,                \* Block[e]: the addresses of entry e of the text
  Texts,                \* texts the user may scan: sequences of entries
  InitialNodes,         \* addresses in the list when the modal opens
  MaxScans, MaxEdits    \* bounds: scans; changes of credential, port and list

ASSUME ScanAssumption ==
  /\ {Default, Own} \subseteq Cred /\ FirstPort \in Port /\ Local \subseteq Ip
  /\ {Accepts, ServerKeys} \subseteq [Ip \X Port -> SUBSET Cred]
  /\ ScanKey \subseteq {m \in Ip \X Port : Own \in ServerKeys[m]}
  /\ None # "ok" /\ InitialNodes \subseteq Ip
  /\ Block \in [Entry -> SUBSET Ip]
  /\ \A t \in Texts : t # << >> /\ t \in Seq(Entry)

Found == [added : BOOLEAN, authorized : BOOLEAN]

VARIABLES
  step,                 \* "select", "auth" or "closed"
  port,                 \* scanPort
  scan,                 \* the scan under way: its port, the entries left and what was
                        \* found; or None
  results,              \* what the last scan found, a function from addresses, or None
  selected,
  cred,                 \* authUser, authMethod and authSecret
  verify,               \* the verification under way: its selection, what it asked
                        \* for, with which port and credential; or None
  verifyStatus,         \* per address "ok", "error", "pending" or None
  existingNodes,        \* addresses in the list of nodes
  nodes,                \* what was added: addresses, ports and credentials stored
  scans, edits,         \* bounds
  tried,                \* history: the checks that a status may rest on
  scanned,              \* history: the port of the scan that was shown last
  changed               \* history: the list changed behind the modal

form == <<step, port, selected, cred>>
bounds == <<scans, edits>>
history == <<tried, scanned, changed>>
vars == <<form, scan, results, verify, verifyStatus, existingNodes, nodes, bounds, history>>

TypeOK ==
  /\ step \in {"select", "auth", "closed"}
  /\ results = None \/ (DOMAIN results \subseteq Ip /\ Range(results) \subseteq Found)
  /\ port \in Port /\ scanned \in Port
  /\ selected \subseteq Ip /\ cred \in Cred /\ existingNodes \subseteq Ip
  /\ verifyStatus \in [Ip -> {"ok", "error", "pending", None}]

Init ==
  /\ step = "select" /\ port = FirstPort /\ scan = None /\ results = None /\ selected = {}
  /\ cred = Default /\ verify = None /\ verifyStatus = [ip \in Ip |-> None]
  /\ existingNodes = InitialNodes /\ nodes = {}
  /\ scans = 0 /\ edits = 0 /\ tried = {} /\ scanned = FirstPort /\ changed = FALSE

-----------------------------------------------------------------------------
\* Scanning.

\* The port is edited where a scan is started, and nowhere else.
EditPort(p) ==
  /\ step = "select" /\ results = None /\ scan = None /\ p # port
  /\ edits < MaxEdits /\ edits' = edits + 1
  /\ port' = p
  /\ UNCHANGED <<step, selected, cred, scan, results, verify, verifyStatus, existingNodes,
                 nodes, scans, history>>

\* handleScan: it is offered while there are no results.
HandleScan(text) ==
  /\ step = "select" /\ results = None /\ scan = None
  /\ scans < MaxScans /\ scans' = scans + 1
  /\ scan' = [port |-> port, left |-> text, all |-> << >>]
  /\ selected' = {}
  /\ UNCHANGED <<step, port, cred, results, verify, verifyStatus, existingNodes, nodes, edits,
                 history>>

\* What ListIP may say of a machine: it is added if an inventory has it with
\* that port, and authorized if the server opens it with its id_rsa.  An
\* address of the server itself is authorized without a check.
Finds(ip, p) ==
  {f \in Found : /\ f.added <=> <<ip, p>> \in Known
                 /\ f.authorized => ip \in Local \/ <<ip, p>> \in ScanKey
                 /\ ip \in Local => f.authorized}

\* What it answers about block: machines that do not answer a ping are left
\* out, addresses of the server never are.
Answer(block, p) ==
  {found \in UNION {[up -> Found] : up \in {u \in SUBSET block : block \cap Local \subseteq u}} :
     \A ip \in DOMAIN found : found[ip] \in Finds(ip, p)}

\* One call per entry, one after the other; the first that found an address
\* decides about it.  The last one shows the results.
AnswerScan ==
  /\ scan # None
  /\ \E found \in Answer(Block[Head(scan.left)], scan.port) :
       LET all == [ip \in DOMAIN scan.all \cup DOMAIN found |->
                     IF ip \in DOMAIN scan.all THEN scan.all[ip] ELSE found[ip]]
       IN  IF Tail(scan.left) = << >>
             THEN scan' = None /\ results' = all /\ scanned' = scan.port
             ELSE /\ scan' = [port |-> scan.port, left |-> Tail(scan.left), all |-> all]
                  /\ UNCHANGED <<results, scanned>>
  /\ UNCHANGED <<form, verify, verifyStatus, existingNodes, nodes, bounds, tried, changed>>

\* One of the calls fails: nothing is shown.
FailScan ==
  /\ scan # None /\ scan' = None
  /\ UNCHANGED <<form, results, verify, verifyStatus, existingNodes, nodes, bounds, history>>

\* The results go, what is selected stays.
ReEnter ==
  /\ step = "select" /\ results # None
  /\ results' = None
  /\ UNCHANGED <<form, scan, verify, verifyStatus, existingNodes, nodes, bounds, history>>

-----------------------------------------------------------------------------
\* Selecting.

Listed(ip) == results # None /\ ip \in DOMAIN results
Authorized(ip) == Listed(ip) /\ results[ip].authorized
AlreadyAdded(ip) == (Listed(ip) /\ results[ip].added) \/ ip \in existingNodes

Select(ips) ==
  /\ step = "select" /\ results # None
  /\ selected' = ips
  /\ UNCHANGED <<step, port, cred, scan, results, verify, verifyStatus, existingNodes, nodes,
                 bounds, history>>

\* A row selects and clears; the tag of a selected address clears.
ToggleSelect(ip) ==
  /\ ip \in selected \/ (Listed(ip) /\ ~AlreadyAdded(ip))
  /\ Select(IF ip \in selected THEN selected \ {ip} ELSE selected \cup {ip})

\* toggleAll is about the rows that the search shows; it forgets the others.
ToggleAll(shown) ==
  /\ results # None
  /\ LET selectable == {ip \in shown \cap DOMAIN results : ~AlreadyAdded(ip)}
     IN  Select(IF selectable # {} /\ selectable \subseteq selected THEN {} ELSE selectable)

\* Mutant: the list of nodes is not looked at again.
DuplicatesOfScan == {ip \in selected : Listed(ip) /\ results[ip].added}

\* What may not be verified: goToAuth looks at the list and at the results.
Duplicates == {ip \in selected : AlreadyAdded(ip)}

Checked(ips, p, c) == [addr : ips, port : {p}, cred : {c}]

GoToAuth ==
  /\ step = "select" /\ selected # {} /\ Duplicates = {}
  /\ step' = "auth"
  /\ LET preAuth == {ip \in selected : Authorized(ip)}
     IN  /\ verifyStatus' = [ip \in Ip |-> IF ip \in preAuth THEN "ok" ELSE None]
         /\ tried' = tried \cup Checked(preAuth, scanned, Own)
  /\ changed' = FALSE
  /\ UNCHANGED <<port, cred, selected, scan, results, verify, existingNodes, nodes, bounds,
                 scanned>>

Back ==
  /\ step = "auth" /\ step' = "select"
  /\ verifyStatus' = [ip \in Ip |-> None]
  /\ UNCHANGED <<port, cred, selected, scan, results, verify, existingNodes, nodes, bounds,
                 history>>

-----------------------------------------------------------------------------
\* Verifying.

EditCred(c) ==
  /\ step = "auth" /\ c # cred
  /\ edits < MaxEdits /\ edits' = edits + 1
  /\ cred' = c
  /\ UNCHANGED <<step, port, selected, scan, results, verify, verifyStatus, existingNodes, nodes,
                 scans, history>>

\* With credentials all are asked for, without those that are not authorized.
ToCheck(ips) ==
  IF cred # Default THEN ips ELSE {ip \in ips : ~Authorized(ip)}

HandleVerify ==
  /\ step = "auth" /\ verify = None /\ ToCheck(selected) # {}
  /\ verify' = [ips |-> selected, toCheck |-> ToCheck(selected), port |-> port, cred |-> cred]
  /\ verifyStatus' = [ip \in Ip |-> IF ip \notin selected THEN None
                                    ELSE IF verifyStatus[ip] = "ok" THEN "ok" ELSE "pending"]
  /\ tried' = tried \cup Checked(ToCheck(selected), port, cred)
  /\ UNCHANGED <<form, scan, results, existingNodes, nodes, bounds, scanned, changed>>

\* All are authorized: they are ok at once.
NothingToVerify ==
  /\ step = "auth" /\ verify = None /\ ToCheck(selected) = {}
  /\ verifyStatus' = [ip \in Ip |-> IF ip \in selected THEN "ok" ELSE None]
  /\ UNCHANGED <<form, scan, results, verify, existingNodes, nodes, bounds, history>>

\* Mutant: what was not asked for is taken from the selection of the moment.
MergedLate(ok) ==
  [ip \in Ip |-> IF ip \in verify.toCheck THEN (IF ip \in ok THEN "ok" ELSE "error")
                 ELSE IF ip \in selected THEN "ok" ELSE verifyStatus[ip]]

\* The statuses after an answer that says ok of the machines in ok: what it
\* does not name is an error; what was not asked for is authorized.
Merged(ok) ==
  [ip \in Ip |-> IF ip \in verify.toCheck THEN (IF ip \in ok THEN "ok" ELSE "error")
                 ELSE IF ip \in verify.ips THEN "ok" ELSE verifyStatus[ip]]

\* What checkSSHConnect tries: the secret and, unless that is a key, every key
\* in the server's .ssh.  No check is needed on the server itself, and a run
\* uses no SSH there either.
Opens(ip, p, c) == ip \in Local \/ c \in Accepts[<<ip, p>>] \cup ServerKeys[<<ip, p>>]

\* PreCheckHost says success of none but those it can open; any of them may
\* be offline or too slow.
AnswerVerify ==
  /\ verify # None
  /\ \E ok \in SUBSET {ip \in verify.toCheck : Opens(ip, verify.port, verify.cred)} :
       verifyStatus' = Merged(ok)
  /\ verify' = None
  /\ UNCHANGED <<form, scan, results, existingNodes, nodes, bounds, history>>

\* The call fails: whatever it asked for is an error, the rest stays.
FailVerify ==
  /\ verify # None
  /\ verifyStatus' = [ip \in Ip |-> IF ip \in verify.toCheck THEN "error" ELSE verifyStatus[ip]]
  /\ verify' = None
  /\ UNCHANGED <<form, scan, results, existingNodes, nodes, bounds, history>>

\* Mutant: one that is verified is enough.
SomeVerified == \E ip \in selected : verifyStatus[ip] = "ok"

AllVerified == selected # {} /\ \A ip \in selected : verifyStatus[ip] = "ok"

\* handleAuthConfirm stores the credential and the port that the form has now.
HandleAuthConfirm ==
  /\ step = "auth" /\ AllVerified
  /\ nodes' = Checked(selected, port, cred)
  /\ step' = "closed"
  /\ UNCHANGED <<port, cred, selected, scan, results, verify, verifyStatus, existingNodes, bounds,
                 history>>

-----------------------------------------------------------------------------
\* A refresh or the restoration of the list that was under way comes to an end.
ListChanges(list) ==
  /\ step # "closed" /\ list # existingNodes
  /\ edits < MaxEdits /\ edits' = edits + 1
  /\ existingNodes' = list /\ changed' = TRUE
  /\ UNCHANGED <<form, scan, results, verify, verifyStatus, nodes, scans, tried, scanned>>

Close ==
  /\ step # "closed" /\ step' = "closed"
  /\ UNCHANGED <<port, cred, selected, scan, results, verify, verifyStatus, existingNodes, nodes,
                 bounds, history>>

Choose == \/ ReEnter \/ GoToAuth \/ Back \/ Close
          \/ \E p \in Port : EditPort(p)
          \/ \E t \in Texts : HandleScan(t)
          \/ \E ip \in Ip : ToggleSelect(ip)
          \/ \E shown \in SUBSET Ip : ToggleAll(shown)

Authenticate == \/ HandleVerify \/ NothingToVerify \/ HandleAuthConfirm
                \/ \E c \in Cred : EditCred(c)

\* Once the modal is gone an answer changes nothing.
Answers == step # "closed" /\ (AnswerScan \/ FailScan \/ AnswerVerify \/ FailVerify)

Next == Choose \/ Authenticate \/ Answers \/ \E list \in SUBSET Ip : ListChanges(list)

Spec == Init /\ [][Next]_vars

-----------------------------------------------------------------------------
\* A machine is shown as ok only if some check of that very machine, by a scan
\* or a verification of this modal, opens it: neither a selection that changed
\* during a verification, nor an answer that comes after going back, nor the
\* results of another scan or port make a machine ok that nobody got into.
OkIsEarned ==
  \A ip \in Ip : verifyStatus[ip] = "ok" =>
    \E t \in tried : t.addr = ip /\ Opens(ip, t.port, t.cred)

\* A node is stored with a port and a credential that open it, provided that
\* all checks of it were made with them; other ways of ending up with a node
\* that nobody can log in to start with a change of the form after a check.
CredentialsHold ==
  [][\A n \in nodes' \ nodes :
       {t \in tried : t.addr = n.addr} \subseteq {n} => Opens(n.addr, n.port, n.cred)]_vars

\* It does not say that what was typed opens the node.  This does, of
\* everything but the empty form, and is refuted: a wrong password is verified
\* if one of the server's keys opens the machine (checkSSHConnect).
TypedOpens ==
  [][\A n \in nodes' \ nodes :
       /\ n.cred # Default /\ n.addr \notin Local
       /\ {t \in tried : t.addr = n.addr} \subseteq {n}
       => n.cred \in Accepts[<<n.addr, n.port>>]]_vars

\* No machine is added twice, unless the list itself changed after the
\* selection was confirmed, and none that an inventory of the server has with
\* the port it was scanned with.
AddedAreNew ==
  [][\A n \in nodes' \ nodes : /\ <<n.addr, scanned>> \notin Known
                               /\ n.addr \in existingNodes => changed]_vars
=============================================================================
