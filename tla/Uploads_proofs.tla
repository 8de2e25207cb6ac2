--------------------------- MODULE Uploads_proofs ---------------------------
(***************************************************************************)
(* Uploads keep their promises for any number of requests and files.        *)
(***************************************************************************)
EXTENDS Uploads, FiniteSetTheorems, TLAPS

(* How far a file is says what Drive holds of it and what its entry is. *)
StageInv ==
  \A r \in Requests, f \in Files :
    /\ Underway(r, f) => f \in carried[r]
    /\ stage[r][f] \in {"link", "done"} => stored[r][f] = "public"
    /\ stage[r][f] = "done" => url[r][f] # "none"

(* And how far the files are says what the request was answered.            *)
AnswerFits(r) ==
  /\ answer[r] = "none" => \A f \in Files : stage[r][f] = "none"
  /\ answer[r] = "pending" =>
       /\ \E f \in carried[r] : stage[r][f] # "done"
       /\ \A f \in carried[r] : stage[r][f] \in Calls \cup {"done"}
       /\ \A f \in Files : stage[r][f] # "failed"
  /\ answer[r] = "created" => carried[r] # {} /\ \A f \in carried[r] : stage[r][f] = "done"
  /\ (\E f \in Files : Underway(r, f)) => answer[r] \in {"pending", "error"}

AnswerInv == \A r \in Requests : AnswerFits(r)

IInv == TypeOK /\ StageInv /\ AnswerInv

-----------------------------------------------------------------------------
LEMMA InitInv == Init => IInv
BY DEF Init, IInv, TypeOK, StageInv, AnswerInv, AnswerFits, Stages, Answers, Underway, Calls

(* A request is accepted only once, before anything is under way for it. *)
LEMMA PostKeeps ==
  ASSUME IInv, NEW r \in Requests, NEW endpoint \in Endpoints, NEW F \in SUBSET Files,
         Post(r, endpoint, F)
  PROVE  IInv'
<1>0. F # {} \/ ~Accepts(endpoint, F)
  BY DEF Accepts
<1>1. CASE ~Accepts(endpoint, F)
  <2>1. /\ answer[r] = "none" /\ answer' = [answer EXCEPT ![r] = "rejected"]
        /\ UNCHANGED <<carried, stage, stored, url>>
    BY <1>1 DEF Post
  <2> QED BY <2>1 DEF IInv, TypeOK, StageInv, AnswerInv, AnswerFits, Stages, Answers, Underway, Calls
<1>2. CASE Accepts(endpoint, F)
  <2> DEFINE initial == [f \in Files |-> IF f \in F THEN "create" ELSE "none"]
  <2>1. /\ answer[r] = "none" /\ answer' = [answer EXCEPT ![r] = "pending"]
        /\ carried' = [carried EXCEPT ![r] = F]
        /\ stage' = [stage EXCEPT ![r] = initial]
        /\ UNCHANGED <<stored, url>>
    BY <1>2 DEF Post
  <2>2. TypeOK'
    <3>1. initial \in [Files -> Stages]
      BY DEF Stages, Calls
    <3> HIDE DEF initial
    <3> QED BY <2>1, <3>1 DEF IInv, TypeOK, Answers
  <2>3. \A s \in Requests \ {r} : /\ stage'[s] = stage[s] /\ carried'[s] = carried[s]
                                 /\ answer'[s] = answer[s]
    BY <2>1 DEF IInv, TypeOK
  <2>4. stage'[r] = initial /\ carried'[r] = F /\ answer'[r] = "pending"
    BY <2>1 DEF IInv, TypeOK
  <2>5. \A f \in Files : stage'[r][f] = IF f \in F THEN "create" ELSE "none"
    BY <2>4
  <2> HIDE DEF initial
  <2>6. StageInv'
    BY <2>1, <2>3, <2>4, <2>5 DEF IInv, StageInv, Underway, Calls
  <2>7. AnswerInv'
    BY <1>0, <1>2, <2>3, <2>4, <2>5 DEF IInv, AnswerInv, AnswerFits, Underway, Calls
  <2> QED BY <2>2, <2>6, <2>7 DEF IInv
<1> QED BY <1>1, <1>2

(* One call of one file: the file goes from the stage it was at to the      *)
(* stage new, and everything about the other files stays.                   *)
Moves(r, f, new) ==
  /\ carried' = carried
  /\ stage' = [stage EXCEPT ![r][f] = new]

LEMMA MovesOne ==
  ASSUME TypeOK, NEW r \in Requests, NEW f \in Files, NEW new \in Stages, Moves(r, f, new)
  PROVE  /\ stage' \in [Requests -> [Files -> Stages]]
         /\ stage'[r][f] = new
         /\ \A s \in Requests, g \in Files : <<s, g>> # <<r, f>> => stage'[s][g] = stage[s][g]
BY DEF TypeOK, Moves

LEMMA StoresOne ==
  ASSUME TypeOK, NEW r \in Requests, NEW f \in Files, NEW s \in {"private", "public"}, Store(r, f, s)
  PROVE  /\ stored' \in [Requests -> [Files -> {"absent", "private", "public"}]]
         /\ stored'[r][f] = s
         /\ \A q \in Requests, g \in Files : <<q, g>> # <<r, f>> => stored'[q][g] = stored[q][g]
BY DEF TypeOK, Store

(* A call that fails, whatever Drive has done: the request is answered      *)
(* unless it was already.                                                   *)
LEMMA RejectKeeps ==
  ASSUME IInv, NEW r \in Requests, NEW f \in Files, Underway(r, f), Reject(r, f),
         carried' = carried,
         UNCHANGED stored \/ (\E s \in {"private", "public"} : Store(r, f, s))
  PROVE  IInv'
<1>1. Moves(r, f, "failed") /\ url' = url /\ answer' = [answer EXCEPT ![r] = AfterFailure(@)]
  BY DEF Reject, SetStage, Moves
<1>2. /\ stage' \in [Requests -> [Files -> Stages]]
      /\ stage'[r][f] = "failed"
      /\ \A s \in Requests, g \in Files : <<s, g>> # <<r, f>> => stage'[s][g] = stage[s][g]
  BY <1>1, MovesOne DEF IInv, Stages
<1>3. /\ stored' \in [Requests -> [Files -> {"absent", "private", "public"}]]
      /\ \A q \in Requests, g \in Files : <<q, g>> # <<r, f>> => stored'[q][g] = stored[q][g]
  BY StoresOne DEF IInv, TypeOK
<1>4. answer[r] \in {"pending", "error"} /\ f \in carried[r]
  BY DEF IInv, AnswerInv, AnswerFits, StageInv
<1>5. /\ answer' \in [Requests -> Answers] /\ answer'[r] = "error"
      /\ \A s \in Requests \ {r} : answer'[s] = answer[s]
  BY <1>1, <1>4 DEF IInv, TypeOK, AfterFailure, Answers
<1>6. TypeOK'
  BY <1>1, <1>2, <1>3, <1>5 DEF IInv, TypeOK, Moves
<1>7. StageInv'
  BY <1>1, <1>2, <1>3 DEF IInv, StageInv, Underway, Calls, Moves
<1>8. AnswerInv'
  BY <1>1, <1>2, <1>5 DEF IInv, TypeOK, AnswerInv, AnswerFits, Underway, Calls, Moves
<1> QED BY <1>6, <1>7, <1>8 DEF IInv

(* A file that moves on without being the last to be done leaves the answer *)
(* of its request right.                                                    *)
LEMMA NotLastFits ==
  ASSUME IInv, NEW r \in Requests, NEW f \in carried[r], NEW new \in Calls \cup {"done"},
         stage'[r][f] = new, \A g \in Files \ {f} : stage'[r][g] = stage[r][g],
         carried' = carried, answer' = answer, answer[r] \in {"pending", "error"},
         answer[r] = "pending" => \E g \in carried[r] : stage'[r][g] # "done"
  PROVE  AnswerFits(r)'
<1>1. carried[r] \subseteq Files /\ new # "failed"
  BY DEF IInv, TypeOK, Calls
<1>2. CASE answer[r] = "error"
  BY <1>2 DEF AnswerFits
<1>3. CASE answer[r] = "pending"
  <2>1. /\ \A g \in carried[r] : stage[r][g] \in Calls \cup {"done"}
        /\ \A g \in Files : stage[r][g] # "failed"
    BY <1>3 DEF IInv, AnswerInv, AnswerFits
  <2>2. \A g \in carried[r] : stage'[r][g] \in Calls \cup {"done"}
    BY <1>1, <2>1
  <2>3. \A g \in Files : stage'[r][g] # "failed"
    BY <1>1, <2>1
  <2> QED BY <1>3, <2>2, <2>3 DEF AnswerFits
<1> QED BY <1>2, <1>3

(* A call that succeeds and is not the last of its file.                    *)
LEMMA ProceedKeeps ==
  ASSUME IInv, NEW r \in Requests, NEW f \in Files, Underway(r, f),
         NEW new \in {"share", "link"}, NEW s \in {"private", "public"},
         new = "link" => s = "public",
         Proceed(r, f, new), Store(r, f, s), UNCHANGED <<carried, url>>
  PROVE  IInv'
<1>1. Moves(r, f, new) /\ answer' = answer
  BY DEF Proceed, SetStage, Moves
<1>2. /\ stage' \in [Requests -> [Files -> Stages]]
      /\ stage'[r][f] = new
      /\ \A q \in Requests, g \in Files : <<q, g>> # <<r, f>> => stage'[q][g] = stage[q][g]
  BY <1>1, MovesOne DEF IInv, Stages, Calls
<1>3. /\ stored' \in [Requests -> [Files -> {"absent", "private", "public"}]]
      /\ stored'[r][f] = s
      /\ \A q \in Requests, g \in Files : <<q, g>> # <<r, f>> => stored'[q][g] = stored[q][g]
  BY StoresOne DEF IInv
<1>4. answer[r] \in {"pending", "error"} /\ f \in carried[r]
  BY DEF IInv, AnswerInv, AnswerFits, StageInv
<1>5. TypeOK'
  BY <1>1, <1>2, <1>3 DEF IInv, TypeOK
<1>6. StageInv'
  BY <1>2, <1>3, <1>4 DEF IInv, StageInv, Underway, Calls
<1>7. AnswerFits(r)'
  BY <1>1, <1>2, <1>4, NotLastFits DEF Calls
<1>8. \A q \in Requests \ {r} : AnswerFits(q)'
  BY <1>1, <1>2 DEF IInv, TypeOK, AnswerInv, AnswerFits, Underway
<1> QED BY <1>5, <1>6, <1>7, <1>8 DEF IInv, AnswerInv

LEMMA UploadKeeps ==
  ASSUME IInv, NEW r \in Requests, NEW f \in Files, UploadFile(r, f)
  PROVE  IInv'
<1>1. Underway(r, f) /\ carried' = carried
  BY DEF UploadFile, Underway, Calls
<1>2. CASE Store(r, f, "private") /\ Proceed(r, f, NextCall) /\ UNCHANGED url
  BY <1>1, <1>2, ProceedKeeps DEF NextCall
<1>3. CASE Reject(r, f)
  BY <1>1, <1>3, RejectKeeps DEF UploadFile
<1> QED BY <1>2, <1>3 DEF UploadFile

LEMMA ShareKeeps ==
  ASSUME IInv, NEW r \in Requests, NEW f \in Files, ShareFile(r, f)
  PROVE  IInv'
<1>1. Underway(r, f) /\ carried' = carried
  BY DEF ShareFile, Underway, Calls
<1>2. CASE Store(r, f, "public") /\ Proceed(r, f, "link") /\ UNCHANGED url
  BY <1>1, <1>2, ProceedKeeps
<1>3. CASE Reject(r, f)
  BY <1>1, <1>3, RejectKeeps DEF ShareFile
<1> QED BY <1>2, <1>3 DEF ShareFile

(* The last call: the request is answered when no other file is missing.    *)
LEMMA GetPublicUrlKeeps ==
  ASSUME IInv, NEW r \in Requests, NEW f \in Files, GetPublicUrl(r, f)
  PROVE  IInv'
<1>1. Underway(r, f) /\ carried' = carried /\ stored' = stored /\ stage[r][f] = "link"
  BY DEF GetPublicUrl, Underway, Calls
<1>2. CASE Reject(r, f)
  BY <1>1, <1>2, RejectKeeps
<1>3. CASE /\ \E webViewLink \in BOOLEAN : url' = [url EXCEPT ![r][f] = UrlOf(webViewLink)]
           /\ SetStage(r, f, "done")
           /\ answer' = IF answer[r] = "pending" /\ LastDone(r, f)
                        THEN [answer EXCEPT ![r] = "created"] ELSE answer
  <2>1. Moves(r, f, "done")
    BY <1>1, <1>3 DEF SetStage, Moves
  <2>2. /\ stage' \in [Requests -> [Files -> Stages]]
        /\ stage'[r][f] = "done"
        /\ \A q \in Requests, g \in Files : <<q, g>> # <<r, f>> => stage'[q][g] = stage[q][g]
    BY <2>1, MovesOne DEF IInv, Stages
  <2>3. /\ url' \in [Requests -> [Files -> {"none", "link", "fail-to-upload"}]]
        /\ url'[r][f] # "none"
        /\ \A q \in Requests, g \in Files : <<q, g>> # <<r, f>> => url'[q][g] = url[q][g]
    BY <1>3 DEF IInv, TypeOK, UrlOf
  <2>4. answer[r] \in {"pending", "error"} /\ f \in carried[r] /\ stored[r][f] = "public"
    BY <1>1 DEF IInv, AnswerInv, AnswerFits, StageInv
  <2>5. TypeOK'
    BY <1>1, <1>3, <2>2, <2>3 DEF IInv, TypeOK, Answers
  <2>6. StageInv'
    BY <1>1, <2>2, <2>3, <2>4 DEF IInv, StageInv, Underway, Calls
  <2>7. \A s \in Requests \ {r} : answer'[s] = answer[s]
    BY <1>3 DEF IInv, TypeOK
  <2>8. \A q \in Requests \ {r} : AnswerFits(q)'
    BY <1>1, <2>2, <2>7 DEF IInv, TypeOK, AnswerInv, AnswerFits, Underway
  <2>9. CASE answer[r] = "pending" /\ LastDone(r, f)
    <3>1. answer'[r] = "created"
      BY <1>3, <2>9 DEF IInv, TypeOK
    <3>2. \A g \in carried[r] : stage'[r][g] = "done"
      BY <2>2, <2>9 DEF LastDone, IInv, TypeOK
    <3>3. \A g \in Files : ~Underway(r, g)'
      BY <1>1, <2>2, <3>2 DEF IInv, StageInv, Underway, Calls
    <3>4. AnswerFits(r)'
      BY <1>1, <2>4, <3>1, <3>2, <3>3 DEF AnswerFits
    <3> QED BY <2>5, <2>6, <2>8, <3>4 DEF IInv, AnswerInv
  <2>10. CASE ~(answer[r] = "pending" /\ LastDone(r, f))
    <3>1. answer' = answer
      BY <1>3, <2>10
    <3>2. answer[r] = "pending" => \E g \in carried[r] : stage'[r][g] # "done"
      BY <2>2, <2>10 DEF LastDone, IInv, TypeOK
    <3>3. AnswerFits(r)'
      BY <1>1, <2>2, <2>4, <3>1, <3>2, NotLastFits
    <3> QED BY <2>5, <2>6, <2>8, <3>3 DEF IInv, AnswerInv
  <2> QED BY <2>9, <2>10
<1> QED BY <1>1, <1>2, <1>3 DEF GetPublicUrl

LEMMA CrashKeeps ==
  ASSUME IInv, Crash
  PROVE  IInv'
<1>1. \A r \in Requests, f \in Files :
        stage'[r][f] = IF Underway(r, f) THEN "lost" ELSE stage[r][f]
  BY DEF Crash
<1>2. \A r \in Requests : answer'[r] = IF answer[r] = "pending" THEN "lost" ELSE answer[r]
  BY DEF Crash
<1>3. \A r \in Requests, f \in Files : ~Underway(r, f)'
  BY <1>1 DEF Underway, Calls
<1>4. TypeOK'
  <2>1. stage' \in [Requests -> [Files -> Stages]]
    BY DEF Crash, IInv, TypeOK, Stages
  <2>2. answer' \in [Requests -> Answers]
    BY DEF Crash, IInv, TypeOK, Answers
  <2> QED BY <2>1, <2>2 DEF Crash, IInv, TypeOK
<1>5. StageInv'
  BY <1>1, <1>3 DEF Crash, IInv, StageInv, Underway, Calls
<1>6. AnswerInv'
  BY <1>1, <1>2, <1>3 DEF Crash, IInv, TypeOK, AnswerInv, AnswerFits, Underway, Calls
<1> QED BY <1>4, <1>5, <1>6 DEF IInv

LEMMA NextKeeps == IInv /\ [Next]_vars => IInv'
<1> SUFFICES ASSUME IInv, [Next]_vars PROVE IInv'
  OBVIOUS
<1>1. ASSUME NEW r \in Requests, NEW endpoint \in Endpoints, NEW F \in SUBSET Files,
             Post(r, endpoint, F)
      PROVE  IInv'
  BY <1>1, PostKeeps
<1>2. ASSUME NEW r \in Requests, NEW f \in Files, Call(r, f)
      PROVE  IInv'
  BY <1>2, UploadKeeps, ShareKeeps, GetPublicUrlKeeps DEF Call
<1>3. CASE Crash
  BY <1>3, CrashKeeps
<1>4. CASE UNCHANGED vars
  BY <1>4 DEF vars, IInv, TypeOK, StageInv, AnswerInv, AnswerFits, Underway
<1> QED BY <1>1, <1>2, <1>3, <1>4 DEF Next

-----------------------------------------------------------------------------
(* Every file and answer keeps its type, for any number of them. *)
THEOREM TypesKept == Spec => []TypeOK
<1>1. IInv => TypeOK
  BY DEF IInv
<1> QED BY <1>1, InitInv, NextKeeps, PTL DEF Spec

(* The links a request was answered with lead to public files, for any      *)
(* number of requests and files, under any failure (uploadMultipleFiles).   *)
THEOREM CreatedFilesArePublic == Spec => []CreatedIsPublic
<1>1. IInv => CreatedIsPublic
  BY DEF IInv, TypeOK, StageInv, AnswerInv, AnswerFits, CreatedIsPublic
<1> QED BY <1>1, InitInv, NextKeeps, PTL DEF Spec

(* No request waits with nothing under way, and none is answered well while *)
(* a file of it still is (Promise.all in uploadMultipleFiles).              *)
THEOREM NoUploadForgotten == Spec => []NothingForgotten
<1>1. IInv => NothingForgotten
  BY DEF IInv, TypeOK, StageInv, AnswerInv, AnswerFits, NothingForgotten, Underway, Calls
<1> QED BY <1>1, InitInv, NextKeeps, PTL DEF Spec
=============================================================================
