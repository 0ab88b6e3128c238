--------------------------- MODULE NodeScanProofs ---------------------------
(***************************************************************************)
(* Proofs about NodeScan, for any machines, ports, keys and bounds.        *)
(*                                                                         *)
(* OkIsEarned is not inductive: a verification under way must remember     *)
(* why what it will call ok is earned, what a scan calls authorized must   *)
(* be open to the server, and a machine that is selected for verification  *)
(* must have been checked if the results call it authorized, which takes   *)
(* that no scan is under way then.                                         *)
(***************************************************************************)
EXTENDS NodeScan, TLAPS

Earned(ip) == \E t \in tried : t.addr = ip /\ Opens(ip, t.port, t.cred)

\* Types of the calls under way.
CallsOK ==
  /\ verify # None => verify.ips \subseteq Ip /\ verify.toCheck \subseteq verify.ips
  /\ scan # None => /\ scan.port \in Port
                    /\ scan.left \in Seq(Entry) /\ scan.left # << >>
                    /\ DOMAIN scan.all \subseteq Ip
                    /\ \A ip \in DOMAIN scan.all : scan.all[ip] \in Found

\* What a scan found to be authorized is.
FoundTrue ==
  /\ \A ip \in Ip : Authorized(ip) => Opens(ip, scanned, Own)
  /\ scan # None => \A ip \in DOMAIN scan.all :
                      scan.all[ip].authorized => Opens(ip, scan.port, Own)

\* During a scan there is nothing to select from; what is selected for
\* verification and authorized was opened by the scan.
SelectedEarned ==
  /\ scan # None => results = None /\ selected = {}
  /\ step = "auth" => \A ip \in selected : Authorized(ip) => Earned(ip)

\* What a verification under way will call ok is earned.
VerifyEarned ==
  verify # None =>
    /\ \A ip \in verify.toCheck :
         \E t \in tried : t.addr = ip /\ t.port = verify.port /\ t.cred = verify.cred
    /\ \A ip \in verify.ips \ verify.toCheck : Earned(ip)

IInv == TypeOK /\ CallsOK /\ FoundTrue /\ SelectedEarned /\ VerifyEarned /\ OkIsEarned

-----------------------------------------------------------------------------
\* The modal opens with nothing scanned or verified.
LEMMA InitInv == Init => IInv
  BY ScanAssumption DEF Init, IInv, TypeOK, CallsOK, FoundTrue, SelectedEarned, VerifyEarned,
                        OkIsEarned, Earned, Listed, Authorized

\* What ListIP calls authorized is open to the server: its id_rsa is one of
\* its keys, and its own addresses need none.
LEMMA AuthorizedOpens ==
  ASSUME NEW ip \in Ip, NEW p \in Port, NEW f \in Finds(ip, p), f.authorized
  PROVE  Opens(ip, p, Own)
  BY ScanAssumption DEF Finds, Opens

\* The port is data of the form.
LEMMA EditPortInv ==
  ASSUME IInv, NEW p \in Port, EditPort(p)
  PROVE  IInv'
  <1>1. TypeOK'
    BY DEF IInv, TypeOK, EditPort, form, bounds, history
  <1>2. CallsOK'
    BY DEF IInv, CallsOK, EditPort, form, bounds, history
  <1>3. FoundTrue'
    BY DEF IInv, FoundTrue, Listed, Authorized, EditPort, form, bounds, history
  <1>4. SelectedEarned'
    BY DEF IInv, SelectedEarned, Earned, Listed, Authorized, EditPort, form, bounds, history
  <1>5. VerifyEarned'
    BY DEF IInv, VerifyEarned, Earned, EditPort, form, bounds, history
  <1>6. OkIsEarned'
    BY DEF IInv, TypeOK, OkIsEarned, Earned, EditPort, form, bounds, history
  <1> QED BY <1>1, <1>2, <1>3, <1>4, <1>5, <1>6 DEF IInv

\* A scan begins with nothing found and nothing selected.
LEMMA HandleScanInv ==
  ASSUME IInv, NEW t \in Texts, HandleScan(t)
  PROVE  IInv'
  <1>1. TypeOK'
    BY DEF IInv, TypeOK, HandleScan, form, bounds, history
  <1>2. CallsOK'
    BY ScanAssumption DEF IInv, TypeOK, CallsOK, HandleScan, form, bounds, history
  <1>3. FoundTrue'
    BY DEF IInv, FoundTrue, Listed, Authorized, HandleScan, form, bounds, history
  <1>4. SelectedEarned'
    BY DEF IInv, SelectedEarned, Earned, Listed, Authorized, HandleScan, form, bounds, history
  <1>5. VerifyEarned'
    BY DEF IInv, VerifyEarned, Earned, HandleScan, form, bounds, history
  <1>6. OkIsEarned'
    BY DEF IInv, TypeOK, OkIsEarned, Earned, HandleScan, form, bounds, history
  <1> QED BY <1>1, <1>2, <1>3, <1>4, <1>5, <1>6 DEF IInv

\* An answer of a scan calls authorized what is open to the server, about the
\* port that it asked for.
LEMMA AnswerScanInv ==
  ASSUME IInv, AnswerScan
  PROVE  IInv'
  <1>a. /\ scan # None /\ scan.port \in Port /\ scan.left \in Seq(Entry) /\ scan.left # << >>
        /\ results = None /\ selected = {}
    BY DEF IInv, CallsOK, SelectedEarned, AnswerScan
  <1>b. Head(scan.left) \in Entry /\ Tail(scan.left) \in Seq(Entry)
    BY <1>a
  <1>c. Block[Head(scan.left)] \subseteq Ip
    BY <1>b, ScanAssumption
  <1>1. PICK found \in Answer(Block[Head(scan.left)], scan.port) :
          LET all == [ip \in DOMAIN scan.all \cup DOMAIN found |->
                        IF ip \in DOMAIN scan.all THEN scan.all[ip] ELSE found[ip]]
          IN  IF Tail(scan.left) = << >>
                THEN scan' = None /\ results' = all /\ scanned' = scan.port
                ELSE /\ scan' = [port |-> scan.port, left |-> Tail(scan.left), all |-> all]
                     /\ UNCHANGED <<results, scanned>>
    BY DEF AnswerScan
  <1> DEFINE all == [ip \in DOMAIN scan.all \cup DOMAIN found |->
                       IF ip \in DOMAIN scan.all THEN scan.all[ip] ELSE found[ip]]
  <1>2. /\ DOMAIN found \subseteq Ip
        /\ \A ip \in DOMAIN found : found[ip] \in Finds(ip, scan.port)
    BY <1>c DEF Answer
  <1>3. \A ip \in DOMAIN found : found[ip] \in Found
    BY <1>2 DEF Finds
  <1>4. DOMAIN all \subseteq Ip /\ \A ip \in DOMAIN all : all[ip] \in Found
    BY <1>a, <1>2, <1>3 DEF IInv, CallsOK
  <1>5. \A ip \in DOMAIN found : found[ip].authorized => Opens(ip, scan.port, Own)
    BY <1>a, <1>2, AuthorizedOpens
  <1>6. \A ip \in DOMAIN all : all[ip].authorized => Opens(ip, scan.port, Own)
    BY <1>a, <1>5 DEF IInv, FoundTrue
  <1>7. UNCHANGED <<step, port, selected, cred, verify, verifyStatus, existingNodes, tried>>
    BY DEF AnswerScan, form
  <1> HIDE DEF all
  <1>8. \/ scan' = None /\ results' = all /\ scanned' = scan.port
        \/ /\ scan' = [port |-> scan.port, left |-> Tail(scan.left), all |-> all]
           /\ UNCHANGED <<results, scanned>> /\ Tail(scan.left) # << >>
    BY <1>1 DEF all
  <1>9. CASE scan' = None /\ results' = all /\ scanned' = scan.port
    <2>1. TypeOK'
      BY <1>a, <1>4, <1>7, <1>9 DEF IInv, TypeOK, Range
    <2>2. FoundTrue'
      BY <1>6, <1>9 DEF FoundTrue, Listed, Authorized
    <2>3. SelectedEarned'
      BY <1>a, <1>7, <1>9 DEF SelectedEarned
    <2>4. CallsOK' /\ VerifyEarned' /\ OkIsEarned'
      BY <1>7, <1>9 DEF IInv, CallsOK, VerifyEarned, OkIsEarned, Earned
    <2> QED BY <2>1, <2>2, <2>3, <2>4 DEF IInv
  <1>10. CASE /\ scan' = [port |-> scan.port, left |-> Tail(scan.left), all |-> all]
              /\ UNCHANGED <<results, scanned>> /\ Tail(scan.left) # << >>
    <2>1. scan'.port = scan.port /\ scan'.left = Tail(scan.left) /\ scan'.all = all
      BY <1>10
    <2>2. TypeOK'
      BY <1>7, <1>10 DEF IInv, TypeOK
    <2>3. CallsOK'
      BY <1>a, <1>b, <1>4, <1>7, <1>10, <2>1 DEF IInv, CallsOK
    <2>4. FoundTrue'
      BY <1>6, <1>10, <2>1 DEF IInv, FoundTrue, Listed, Authorized
    <2>5. SelectedEarned'
      BY <1>a, <1>7, <1>10 DEF SelectedEarned
    <2>6. VerifyEarned' /\ OkIsEarned'
      BY <1>7 DEF IInv, VerifyEarned, OkIsEarned, Earned
    <2> QED BY <2>2, <2>3, <2>4, <2>5, <2>6 DEF IInv
  <1> QED BY <1>8, <1>9, <1>10

\* A scan that fails leaves the results alone.
LEMMA FailScanInv ==
  ASSUME IInv, FailScan
  PROVE  IInv'
  <1>1. TypeOK'
    BY DEF IInv, TypeOK, FailScan, form, bounds, history
  <1>2. CallsOK'
    BY DEF IInv, CallsOK, FailScan, form, bounds, history
  <1>3. FoundTrue'
    BY DEF IInv, FoundTrue, Listed, Authorized, FailScan, form, bounds, history
  <1>4. SelectedEarned'
    BY DEF IInv, SelectedEarned, Earned, Listed, Authorized, FailScan, form, bounds, history
  <1>5. VerifyEarned'
    BY DEF IInv, VerifyEarned, Earned, FailScan, form, bounds, history
  <1>6. OkIsEarned'
    BY DEF IInv, TypeOK, OkIsEarned, Earned, FailScan, form, bounds, history
  <1> QED BY <1>1, <1>2, <1>3, <1>4, <1>5, <1>6 DEF IInv

\* Without results nothing is authorized.
LEMMA ReEnterInv ==
  ASSUME IInv, ReEnter
  PROVE  IInv'
  <1>1. TypeOK'
    BY DEF IInv, TypeOK, ReEnter, form, bounds, history
  <1>2. CallsOK'
    BY DEF IInv, CallsOK, ReEnter, form, bounds, history
  <1>3. FoundTrue'
    BY DEF IInv, FoundTrue, Listed, Authorized, ReEnter, form, bounds, history
  <1>4. SelectedEarned'
    BY DEF IInv, SelectedEarned, Earned, Listed, Authorized, ReEnter, form, bounds, history
  <1>5. VerifyEarned'
    BY DEF IInv, VerifyEarned, Earned, ReEnter, form, bounds, history
  <1>6. OkIsEarned'
    BY DEF IInv, TypeOK, OkIsEarned, Earned, ReEnter, form, bounds, history
  <1> QED BY <1>1, <1>2, <1>3, <1>4, <1>5, <1>6 DEF IInv

\* Selecting does not verify.
LEMMA ToggleSelectInv ==
  ASSUME IInv, NEW i \in Ip, ToggleSelect(i)
  PROVE  IInv'
  <1>1. TypeOK'
    BY DEF IInv, TypeOK, ToggleSelect, Select, form, bounds, history
  <1>2. CallsOK'
    BY DEF IInv, CallsOK, ToggleSelect, Select, form, bounds, history
  <1>3. FoundTrue'
    BY DEF IInv, FoundTrue, Listed, Authorized, ToggleSelect, Select, form, bounds, history
  <1>4. SelectedEarned'
    BY DEF IInv, SelectedEarned, Earned, Listed, Authorized, ToggleSelect, Select, form,
       bounds, history
  <1>5. VerifyEarned'
    BY DEF IInv, VerifyEarned, Earned, ToggleSelect, Select, form, bounds, history
  <1>6. OkIsEarned'
    BY DEF IInv, TypeOK, OkIsEarned, Earned, ToggleSelect, Select, form, bounds, history
  <1> QED BY <1>1, <1>2, <1>3, <1>4, <1>5, <1>6 DEF IInv

\* Selecting does not verify.
LEMMA ToggleAllInv ==
  ASSUME IInv, NEW s \in SUBSET Ip, ToggleAll(s)
  PROVE  IInv'
  <1>1. TypeOK'
    BY DEF IInv, TypeOK, ToggleAll, Select, form, bounds, history
  <1>2. CallsOK'
    BY DEF IInv, CallsOK, ToggleAll, Select, form, bounds, history
  <1>3. FoundTrue'
    BY DEF IInv, FoundTrue, Listed, Authorized, ToggleAll, Select, form, bounds, history
  <1>4. SelectedEarned'
    BY DEF IInv, SelectedEarned, Earned, Listed, Authorized, ToggleAll, Select, form, bounds,
       history
  <1>5. VerifyEarned'
    BY DEF IInv, VerifyEarned, Earned, ToggleAll, Select, form, bounds, history
  <1>6. OkIsEarned'
    BY DEF IInv, TypeOK, OkIsEarned, Earned, ToggleAll, Select, form, bounds, history
  <1> QED BY <1>1, <1>2, <1>3, <1>4, <1>5, <1>6 DEF IInv

\* What the scan found authorized is checked: by the scan.
LEMMA GoToAuthInv ==
  ASSUME IInv, GoToAuth
  PROVE  IInv'
  <1> DEFINE preAuth == {ip \in selected : Authorized(ip)}
  <1>a. /\ verifyStatus' = [ip \in Ip |-> IF ip \in preAuth THEN "ok" ELSE None]
        /\ tried' = tried \cup Checked(preAuth, scanned, Own)
        /\ UNCHANGED <<port, cred, selected, scan, results, verify, existingNodes, scanned>>
        /\ step' = "auth"
    BY DEF GoToAuth
  <1>b. preAuth \subseteq Ip
    BY DEF IInv, TypeOK
  <1>c. \A ip \in preAuth : Earned(ip)'
    <2> SUFFICES ASSUME NEW ip \in preAuth PROVE Earned(ip)'
      OBVIOUS
    <2> DEFINE t == [addr |-> ip, port |-> scanned, cred |-> Own]
    <2>1. t \in tried' /\ t.addr = ip /\ t.port = scanned /\ t.cred = Own
      BY <1>a DEF Checked
    <2>2. Opens(ip, scanned, Own)
      BY <1>b DEF IInv, FoundTrue
    <2> HIDE DEF t
    <2> QED BY <2>1, <2>2 DEF Earned
  <1>1. TypeOK'
    BY <1>a DEF IInv, TypeOK
  <1>2. CallsOK' /\ FoundTrue'
    BY <1>a DEF IInv, CallsOK, FoundTrue, Listed, Authorized
  <1>3. SelectedEarned'
    BY <1>a, <1>c DEF IInv, SelectedEarned, Listed, Authorized
  <1>4. VerifyEarned'
    BY <1>a DEF IInv, VerifyEarned, Earned
  <1>5. OkIsEarned'
    <2> HIDE DEF preAuth
    <2> QED BY <1>a, <1>b, <1>c, ScanAssumption DEF OkIsEarned, Earned
  <1> QED BY <1>1, <1>2, <1>3, <1>4, <1>5 DEF IInv

\* Going back forgets the statuses.
LEMMA BackInv ==
  ASSUME IInv, Back
  PROVE  IInv'
  <1>1. TypeOK'
    BY DEF IInv, TypeOK, Back, form, bounds, history
  <1>2. CallsOK'
    BY DEF IInv, CallsOK, Back, form, bounds, history
  <1>3. FoundTrue'
    BY DEF IInv, FoundTrue, Listed, Authorized, Back, form, bounds, history
  <1>4. SelectedEarned'
    BY DEF IInv, SelectedEarned, Earned, Listed, Authorized, Back, form, bounds, history
  <1>5. VerifyEarned'
    BY DEF IInv, VerifyEarned, Earned, Back, form, bounds, history
  <1>6. OkIsEarned'
    BY ScanAssumption DEF IInv, TypeOK, OkIsEarned, Earned, Back, form, bounds, history
  <1> QED BY <1>1, <1>2, <1>3, <1>4, <1>5, <1>6 DEF IInv

\* A credential that is typed was not tried.
LEMMA EditCredInv ==
  ASSUME IInv, NEW c \in Cred, EditCred(c)
  PROVE  IInv'
  <1>1. TypeOK'
    BY DEF IInv, TypeOK, EditCred, form, bounds, history
  <1>2. CallsOK'
    BY DEF IInv, CallsOK, EditCred, form, bounds, history
  <1>3. FoundTrue'
    BY DEF IInv, FoundTrue, Listed, Authorized, EditCred, form, bounds, history
  <1>4. SelectedEarned'
    BY DEF IInv, SelectedEarned, Earned, Listed, Authorized, EditCred, form, bounds, history
  <1>5. VerifyEarned'
    BY DEF IInv, VerifyEarned, Earned, EditCred, form, bounds, history
  <1>6. OkIsEarned'
    BY DEF IInv, TypeOK, OkIsEarned, Earned, EditCred, form, bounds, history
  <1> QED BY <1>1, <1>2, <1>3, <1>4, <1>5, <1>6 DEF IInv

\* What is not asked for is authorized, and was opened by the scan.
LEMMA HandleVerifyInv ==
  ASSUME IInv, HandleVerify
  PROVE  IInv'
  <1>a. /\ verify' = [ips |-> selected, toCheck |-> ToCheck(selected), port |-> port, cred |-> cred]
        /\ tried' = tried \cup Checked(ToCheck(selected), port, cred)
        /\ UNCHANGED <<step, port, selected, cred, scan, results, existingNodes, scanned>>
        /\ step = "auth"
    BY DEF HandleVerify, form
  <1>b. ToCheck(selected) \subseteq selected /\ selected \subseteq Ip
    BY DEF ToCheck, IInv, TypeOK
  <1>c. \A ip \in selected \ ToCheck(selected) : Earned(ip)'
    BY <1>a DEF ToCheck, IInv, SelectedEarned, Earned
  <1>d. \A ip \in ToCheck(selected) :
          \E t \in tried' : t.addr = ip /\ t.port = port /\ t.cred = cred
    <2> SUFFICES ASSUME NEW ip \in ToCheck(selected)
                 PROVE  \E t \in tried' : t.addr = ip /\ t.port = port /\ t.cred = cred
      OBVIOUS
    <2>1. [addr |-> ip, port |-> port, cred |-> cred] \in tried'
      BY <1>a DEF Checked
    <2> QED BY <2>1
  <1>1. TypeOK'
    BY <1>a DEF IInv, TypeOK, HandleVerify
  <1>2. CallsOK' /\ FoundTrue'
    BY <1>a, <1>b DEF IInv, CallsOK, FoundTrue, Listed, Authorized
  <1>3. SelectedEarned'
    BY <1>a DEF IInv, SelectedEarned, Earned, Listed, Authorized
  <1>4. VerifyEarned'
    BY <1>a, <1>c, <1>d DEF VerifyEarned
  <1>5. OkIsEarned'
    BY <1>a, ScanAssumption DEF IInv, OkIsEarned, Earned, HandleVerify
  <1> QED BY <1>1, <1>2, <1>3, <1>4, <1>5 DEF IInv

\* All that is selected is authorized, and was opened by the scan.
LEMMA NothingToVerifyInv ==
  ASSUME IInv, NothingToVerify
  PROVE  IInv'
  <1>1. TypeOK'
    BY DEF IInv, TypeOK, NothingToVerify, form, bounds, history
  <1>2. CallsOK' /\ FoundTrue'
    BY DEF IInv, CallsOK, FoundTrue, Listed, Authorized, NothingToVerify, history
  <1>3. SelectedEarned' /\ VerifyEarned'
    BY DEF IInv, SelectedEarned, VerifyEarned, Earned, Listed, Authorized, NothingToVerify, form,
           history
  <1>4. OkIsEarned'
    <2>1. \A ip \in selected : Earned(ip)
      BY DEF IInv, SelectedEarned, NothingToVerify, ToCheck
    <2> QED BY <2>1, ScanAssumption DEF OkIsEarned, Earned, NothingToVerify, history
  <1> QED BY <1>1, <1>2, <1>3, <1>4 DEF IInv

\* What the answer calls ok was opened by the check; the rest was earned when
\* it was asked.
LEMMA AnswerVerifyInv ==
  ASSUME IInv, AnswerVerify
  PROVE  IInv'
  <1>a. /\ verify # None /\ verify' = None
        /\ UNCHANGED <<step, port, selected, cred, scan, results, existingNodes, tried, scanned>>
    BY DEF AnswerVerify, form, history
  <1>b. PICK ok \in SUBSET {ip \in verify.toCheck : Opens(ip, verify.port, verify.cred)} :
          verifyStatus' = Merged(ok)
    BY DEF AnswerVerify
  <1>1. TypeOK'
    BY <1>a, <1>b DEF IInv, TypeOK, Merged
  <1>2. CallsOK' /\ FoundTrue' /\ VerifyEarned'
    BY <1>a DEF IInv, CallsOK, FoundTrue, VerifyEarned, Listed, Authorized
  <1>3. SelectedEarned'
    BY <1>a DEF IInv, SelectedEarned, Earned, Listed, Authorized
  <1>4. OkIsEarned'
    <2>1. \A ip \in ok : Earned(ip)
      BY <1>a, <1>b DEF IInv, VerifyEarned, Earned
    <2>2. \A ip \in verify.ips \ verify.toCheck : Earned(ip)
      BY <1>a DEF IInv, VerifyEarned
    <2> QED BY <1>a, <1>b, <2>1, <2>2 DEF IInv, OkIsEarned, Earned, Merged
  <1> QED BY <1>1, <1>2, <1>3, <1>4 DEF IInv

\* A failed verification makes nothing ok.
LEMMA FailVerifyInv ==
  ASSUME IInv, FailVerify
  PROVE  IInv'
  <1>1. TypeOK'
    BY DEF IInv, TypeOK, FailVerify, form, bounds, history
  <1>2. CallsOK'
    BY DEF IInv, CallsOK, FailVerify, form, bounds, history
  <1>3. FoundTrue'
    BY DEF IInv, FoundTrue, Listed, Authorized, FailVerify, form, bounds, history
  <1>4. SelectedEarned'
    BY DEF IInv, SelectedEarned, Earned, Listed, Authorized, FailVerify, form, bounds, history
  <1>5. VerifyEarned'
    BY DEF IInv, VerifyEarned, Earned, FailVerify, form, bounds, history
  <1>6. OkIsEarned'
    BY DEF IInv, TypeOK, OkIsEarned, Earned, FailVerify, form, bounds, history
  <1> QED BY <1>1, <1>2, <1>3, <1>4, <1>5, <1>6 DEF IInv

\* Adding the nodes closes the modal.
LEMMA HandleAuthConfirmInv ==
  ASSUME IInv, HandleAuthConfirm
  PROVE  IInv'
  <1>1. TypeOK'
    BY DEF IInv, TypeOK, HandleAuthConfirm, form, bounds, history
  <1>2. CallsOK'
    BY DEF IInv, CallsOK, HandleAuthConfirm, form, bounds, history
  <1>3. FoundTrue'
    BY DEF IInv, FoundTrue, Listed, Authorized, HandleAuthConfirm, form, bounds, history
  <1>4. SelectedEarned'
    BY DEF IInv, SelectedEarned, Earned, Listed, Authorized, HandleAuthConfirm, form, bounds,
       history
  <1>5. VerifyEarned'
    BY DEF IInv, VerifyEarned, Earned, HandleAuthConfirm, form, bounds, history
  <1>6. OkIsEarned'
    BY DEF IInv, TypeOK, OkIsEarned, Earned, HandleAuthConfirm, form, bounds, history
  <1> QED BY <1>1, <1>2, <1>3, <1>4, <1>5, <1>6 DEF IInv

\* The list of nodes is not part of the invariant but for its type.
LEMMA ListChangesInv ==
  ASSUME IInv, NEW l \in SUBSET Ip, ListChanges(l)
  PROVE  IInv'
  <1>1. TypeOK'
    BY DEF IInv, TypeOK, ListChanges, form, bounds, history
  <1>2. CallsOK'
    BY DEF IInv, CallsOK, ListChanges, form, bounds, history
  <1>3. FoundTrue'
    BY DEF IInv, FoundTrue, Listed, Authorized, ListChanges, form, bounds, history
  <1>4. SelectedEarned'
    BY DEF IInv, SelectedEarned, Earned, Listed, Authorized, ListChanges, form, bounds, history
  <1>5. VerifyEarned'
    BY DEF IInv, VerifyEarned, Earned, ListChanges, form, bounds, history
  <1>6. OkIsEarned'
    BY DEF IInv, TypeOK, OkIsEarned, Earned, ListChanges, form, bounds, history
  <1> QED BY <1>1, <1>2, <1>3, <1>4, <1>5, <1>6 DEF IInv

\* Closing changes the step only.
LEMMA CloseInv ==
  ASSUME IInv, Close
  PROVE  IInv'
  <1>1. TypeOK'
    BY DEF IInv, TypeOK, Close, form, bounds, history
  <1>2. CallsOK'
    BY DEF IInv, CallsOK, Close, form, bounds, history
  <1>3. FoundTrue'
    BY DEF IInv, FoundTrue, Listed, Authorized, Close, form, bounds, history
  <1>4. SelectedEarned'
    BY DEF IInv, SelectedEarned, Earned, Listed, Authorized, Close, form, bounds, history
  <1>5. VerifyEarned'
    BY DEF IInv, VerifyEarned, Earned, Close, form, bounds, history
  <1>6. OkIsEarned'
    BY DEF IInv, TypeOK, OkIsEarned, Earned, Close, form, bounds, history
  <1> QED BY <1>1, <1>2, <1>3, <1>4, <1>5, <1>6 DEF IInv

-----------------------------------------------------------------------------
\* Every step keeps the invariant.
LEMMA StepInv == IInv /\ [Next]_vars => IInv'
  <1> SUFFICES ASSUME IInv, [Next]_vars PROVE IInv' OBVIOUS
  <1>1. CASE Choose
    BY <1>1, ReEnterInv, GoToAuthInv, BackInv, CloseInv, EditPortInv, HandleScanInv,
       ToggleSelectInv, ToggleAllInv DEF Choose
  <1>2. CASE Authenticate
    BY <1>2, HandleVerifyInv, NothingToVerifyInv, HandleAuthConfirmInv, EditCredInv
       DEF Authenticate
  <1>3. CASE Answers
    BY <1>3, AnswerScanInv, FailScanInv, AnswerVerifyInv, FailVerifyInv DEF Answers
  <1>4. CASE \E list \in SUBSET Ip : ListChanges(list)
    BY <1>4, ListChangesInv
  <1>5. CASE UNCHANGED vars
    BY <1>5 DEF vars, form, bounds, history, IInv, TypeOK, CallsOK, FoundTrue,
                SelectedEarned, VerifyEarned, OkIsEarned, Earned, Listed, Authorized
  <1> QED BY <1>1, <1>2, <1>3, <1>4, <1>5 DEF Next

\* The invariant holds throughout.
THEOREM Invariance == Spec => []IInv
  BY InitInv, StepInv, PTL DEF Spec

\* The modal's state has its type: results are about addresses, every address
\* has one of the four statuses.
THEOREM TypeCorrect == Spec => []TypeOK
  <1>1. IInv => TypeOK BY DEF IInv
  <1> QED BY <1>1, Invariance, PTL

\* A machine is shown as ok only if a check of it that the scan or a
\* verification made opens it (goToAuth and handleVerify, with what ListIP and
\* PreCheckHost try).
THEOREM OkIsEarnedHolds == Spec => []OkIsEarned
  <1>1. IInv => OkIsEarned BY DEF IInv
  <1> QED BY <1>1, Invariance, PTL

-----------------------------------------------------------------------------
\* Only handleAuthConfirm adds nodes.
LEMMA OnlyConfirmAdds ==
  ASSUME [Next]_vars
  PROVE  nodes' = nodes \/ HandleAuthConfirm
  <1>1. CASE Choose
    BY <1>1 DEF Choose, ReEnter, GoToAuth, Back, Close, EditPort, HandleScan, ToggleSelect,
       ToggleAll, Select
  <1>2. CASE Authenticate
    BY <1>2 DEF Authenticate, HandleVerify, NothingToVerify, EditCred
  <1>3. CASE Answers
    BY <1>3 DEF Answers, AnswerScan, FailScan, AnswerVerify, FailVerify
  <1>4. CASE \E list \in SUBSET Ip : ListChanges(list)
    BY <1>4 DEF ListChanges
  <1>5. CASE UNCHANGED vars
    BY <1>5 DEF vars
  <1> QED BY <1>1, <1>2, <1>3, <1>4, <1>5 DEF Next

\* The port and credential that are stored open the node, if it was checked
\* with no others (handleAuthConfirm): every selected machine is shown as ok,
\* ok is earned by a check of that machine, and that check can only have been
\* one with them.
THEOREM CredentialsHoldAlways == Spec => CredentialsHold
  <1> DEFINE P == \A n \in nodes' \ nodes :
                    {t \in tried : t.addr = n.addr} \subseteq {n} => Opens(n.addr, n.port, n.cred)
  <1>1. IInv /\ [Next]_vars => [P]_vars
    <2> SUFFICES ASSUME IInv, [Next]_vars PROVE P OBVIOUS
    <2>1. CASE nodes' = nodes
      BY <2>1
    <2>2. CASE HandleAuthConfirm
      <3> SUFFICES ASSUME NEW n \in nodes', {t \in tried : t.addr = n.addr} \subseteq {n}
                   PROVE  Opens(n.addr, n.port, n.cred)
        OBVIOUS
      <3>1. n \in Checked(selected, port, cred) /\ AllVerified
        BY <2>2 DEF HandleAuthConfirm
      <3>2. n.addr \in selected /\ n.addr \in Ip
        BY <3>1 DEF IInv, TypeOK, Checked
      <3>3. verifyStatus[n.addr] = "ok"
        BY <3>1, <3>2 DEF AllVerified
      <3>4. PICK t \in tried : t.addr = n.addr /\ Opens(n.addr, t.port, t.cred)
        BY <3>2, <3>3 DEF IInv, OkIsEarned
      <3>5. t = n
        BY <3>4
      <3> QED
        BY <3>4, <3>5
    <2> QED BY <2>1, <2>2, OnlyConfirmAdds
  <1> QED BY <1>1, Invariance, PTL DEF Spec, CredentialsHold

-----------------------------------------------------------------------------
\* AddedAreNew needs what the credentials do not: a scan finds the machines
\* that an inventory has with its port as added, so that they are never
\* selected; and what is selected for verification was not in the list when
\* the selection was confirmed.
KnownAreAdded ==
  /\ results # None => \A ip \in DOMAIN results : <<ip, scanned>> \in Known => results[ip].added
  /\ scan # None => \A ip \in DOMAIN scan.all : <<ip, scan.port>> \in Known => scan.all[ip].added

SelectedAreNew ==
  /\ \A ip \in selected : <<ip, scanned>> \notin Known
  /\ step = "auth" => \A ip \in selected \cap existingNodes : changed

NewInv == KnownAreAdded /\ SelectedAreNew

\* An answer of a scan calls known machines added; nothing is selected then.
LEMMA AnswerScanNew ==
  ASSUME IInv, NewInv, AnswerScan
  PROVE  NewInv'
  <1>a. scan # None /\ results = None /\ selected = {}
    BY DEF IInv, SelectedEarned, AnswerScan
  <1>1. SelectedAreNew'
    BY <1>a DEF SelectedAreNew, AnswerScan, form
  <1>2. PICK found \in Answer(Block[Head(scan.left)], scan.port) :
          LET all == [ip \in DOMAIN scan.all \cup DOMAIN found |->
                        IF ip \in DOMAIN scan.all THEN scan.all[ip] ELSE found[ip]]
          IN  IF Tail(scan.left) = << >>
                THEN scan' = None /\ results' = all /\ scanned' = scan.port
                ELSE /\ scan' = [port |-> scan.port, left |-> Tail(scan.left), all |-> all]
                     /\ UNCHANGED <<results, scanned>>
    BY DEF AnswerScan
  <1> DEFINE all == [ip \in DOMAIN scan.all \cup DOMAIN found |->
                       IF ip \in DOMAIN scan.all THEN scan.all[ip] ELSE found[ip]]
  <1>3. \A ip \in DOMAIN all : <<ip, scan.port>> \in Known => all[ip].added
    <2>1. \A ip \in DOMAIN found : <<ip, scan.port>> \in Known => found[ip].added
      BY DEF Answer, Finds
    <2> QED BY <1>a, <2>1 DEF NewInv, KnownAreAdded
  <1> HIDE DEF all
  <1>4. CASE scan' = None /\ results' = all /\ scanned' = scan.port
    BY <1>1, <1>3, <1>4 DEF NewInv, KnownAreAdded
  <1>5. CASE /\ scan' = [port |-> scan.port, left |-> Tail(scan.left), all |-> all]
             /\ UNCHANGED <<results, scanned>>
    <2>1. scan'.port = scan.port /\ scan'.all = all
      BY <1>5
    <2> QED BY <1>a, <1>1, <1>3, <1>5, <2>1 DEF NewInv, KnownAreAdded
  <1> QED BY <1>2, <1>4, <1>5 DEF all

\* Only what is not added is selected, and it is not in the list when the
\* selection is confirmed.
LEMMA ChooseNew ==
  ASSUME IInv, NewInv, Choose
  PROVE  NewInv'
  <1> USE DEF NewInv, KnownAreAdded, SelectedAreNew, Listed
  <1>1. CASE ReEnter \/ Back \/ Close
    BY <1>1 DEF ReEnter, Back, Close, form, bounds, history
  <1>2. CASE GoToAuth
    BY <1>2 DEF GoToAuth, Duplicates, AlreadyAdded
  <1>3. ASSUME NEW t \in Texts, HandleScan(t) PROVE NewInv'
    BY <1>3 DEF HandleScan, history
  <1>4. ASSUME NEW ip \in Ip, ToggleSelect(ip) PROVE NewInv'
    BY <1>4 DEF ToggleSelect, Select, AlreadyAdded, history
  <1>5. ASSUME NEW shown \in SUBSET Ip, ToggleAll(shown) PROVE NewInv'
    BY <1>5 DEF ToggleAll, Select, AlreadyAdded, history
  <1>6. ASSUME NEW p \in Port, EditPort(p) PROVE NewInv'
    BY <1>6 DEF EditPort, history
  <1> QED BY <1>1, <1>2, <1>3, <1>4, <1>5, <1>6 DEF Choose

\* No step makes a known machine a candidate.
LEMMA StepNew == IInv /\ NewInv /\ [Next]_vars => NewInv'
  <1> SUFFICES ASSUME IInv, NewInv, [Next]_vars PROVE NewInv' OBVIOUS
  <1> USE DEF NewInv, KnownAreAdded, SelectedAreNew
  <1>1. CASE Authenticate
    BY <1>1 DEF Authenticate, HandleVerify, NothingToVerify, HandleAuthConfirm, EditCred, form,
                bounds, history
  <1>2. CASE Answers
    BY <1>2, AnswerScanNew DEF Answers, FailScan, AnswerVerify, FailVerify, form, bounds, history
  <1>3. CASE \E list \in SUBSET Ip : ListChanges(list)
    BY <1>3 DEF ListChanges, form
  <1>4. CASE UNCHANGED vars
    BY <1>4 DEF vars, form, bounds, history
  <1> QED BY <1>1, <1>2, <1>3, <1>4, ChooseNew DEF Next

\* Nothing is added that an inventory of the server has with the port of the
\* scan, and nothing twice
\* unless the list changed after the selection was confirmed (goToAuth,
\* handleAuthConfirm).
THEOREM AddedAreNewAlways == Spec => AddedAreNew
  <1> DEFINE P == \A n \in nodes' \ nodes : /\ <<n.addr, scanned>> \notin Known
                                            /\ n.addr \in existingNodes => changed
  <1>1. Init => NewInv
    BY DEF Init, NewInv, KnownAreAdded, SelectedAreNew
  <1>2. IInv /\ NewInv /\ [Next]_vars => [P]_vars
    <2> SUFFICES ASSUME IInv, NewInv, [Next]_vars PROVE P OBVIOUS
    <2>1. CASE HandleAuthConfirm
      BY <2>1 DEF HandleAuthConfirm, Checked, NewInv, SelectedAreNew
    <2> QED BY <2>1, OnlyConfirmAdds
  <1> QED BY <1>1, <1>2, Invariance, StepNew, PTL DEF Spec, AddedAreNew
=============================================================================
