------------------------------- MODULE Uploads -------------------------------
(***************************************************************************)
(* Uploads of images to Google Drive (FileUploadController over             *)
(* GoogleDriveStorageService).  Every file of a request goes through three  *)
(* calls of its own: create the file, open it to anyone, ask for its link.  *)
(* The files of a request advance independently, as do the requests.  The   *)
(* first call that fails answers the request with an error (Promise.all);   *)
(* the other files of the request go on, and what is in Drive stays there.  *)
(***************************************************************************)
EXTENDS Integers, FiniteSets

CONSTANTS
  Requests,  \* the requests of this instance
  Files,     \* the files a request may carry
  Size,      \* size of each file, in megabytes
  Images     \* the files that are jpg or png

ASSUME UploadsAssumption == Size \in [Files -> Nat] /\ Images \subseteq Files

VARIABLES
  carried,  \* the files of each request, {} until it is accepted
  stage,    \* the next call of each file of each request: see Stages
  stored,   \* what Drive holds of it
  url,      \* the url field of its entry in the response
  answer    \* the response of each request: see Answers

vars == <<carried, stage, stored, url, answer>>

Endpoints == {"upload", "array-files", "multiple-fields-upload"}
Calls == {"create", "share", "link"}
Stages == Calls \cup {"none", "done", "failed", "lost"}

(* "lost": the process died before it had answered. *)
Answers == {"none", "pending", "created", "rejected", "error", "lost"}

TypeOK ==
  /\ carried \in [Requests -> SUBSET Files]
  /\ stage \in [Requests -> [Files -> Stages]]
  /\ stored \in [Requests -> [Files -> {"absent", "private", "public"}]]
  /\ url \in [Requests -> [Files -> {"none", "link", "fail-to-upload"}]]
  /\ answer \in [Requests -> Answers]

Underway(r, f) == stage[r][f] \in Calls

-----------------------------------------------------------------------------
(* Faulty variants *)

SettlesAll(a) == a
SkipsPermission == "link"

-----------------------------------------------------------------------------
(* A file at the limit itself is too big (MaxFileSizeValidator). *)
ValidImages(F, maxSize) == F \subseteq Images /\ \A f \in F : Size[f] < maxSize

FilePipe(F) == ValidImages(F, 3)

(* ParseFilePipe hands the count validator one file at a time, so that it   *)
(* never counts two.                                                        *)
MultipleFilesValidator(F) == ValidImages(F, 10)

(* The interceptor of multer, which knows nothing of types. *)
MultipleFieldsLimits(F) == Cardinality(F) <= 5 /\ \A f \in F : Size[f] <= 10

Accepts(endpoint, F) ==
  /\ F # {}
  /\ \/ endpoint = "upload" /\ Cardinality(F) = 1 /\ FilePipe(F)
     \/ endpoint = "array-files" /\ MultipleFilesValidator(F)
     \/ endpoint = "multiple-fields-upload" /\ MultipleFieldsLimits(F)

(* (webViewLink ?? 'fail-to-upload') || ... never reaches webContentLink.   *)
UrlOf(webViewLink) == IF webViewLink THEN "link" ELSE "fail-to-upload"

(* uploadFile resolves, getPublicUrl comes next: the permission first. *)
NextCall == "share"

(* Promise.all resolves with its last file, *)
LastDone(r, f) == \A g \in carried[r] \ {f} : stage[r][g] = "done"

(* and rejects with the first that fails. *)
AfterFailure(a) == IF a = "pending" THEN "error" ELSE a

SetStage(r, f, s) == stage' = [stage EXCEPT ![r][f] = s]

Proceed(r, f, s) == SetStage(r, f, s) /\ UNCHANGED answer

Reject(r, f) ==
  /\ SetStage(r, f, "failed")
  /\ answer' = [answer EXCEPT ![r] = AfterFailure(@)]
  /\ UNCHANGED url

(* Drive holds s of the file from now on. *)
Store(r, f, s) == stored' = [stored EXCEPT ![r][f] = s]

-----------------------------------------------------------------------------
Init ==
  /\ carried = [r \in Requests |-> {}]
  /\ stage = [r \in Requests |-> [f \in Files |-> "none"]]
  /\ stored = [r \in Requests |-> [f \in Files |-> "absent"]]
  /\ url = [r \in Requests |-> [f \in Files |-> "none"]]
  /\ answer = [r \in Requests |-> "none"]

(* POST files/... *)
Post(r, endpoint, F) ==
  /\ answer[r] = "none"
  /\ IF Accepts(endpoint, F)
     THEN /\ answer' = [answer EXCEPT ![r] = "pending"]
          /\ carried' = [carried EXCEPT ![r] = F]
          /\ stage' = [stage EXCEPT ![r] = [f \in Files |-> IF f \in F THEN "create" ELSE "none"]]
     ELSE /\ answer' = [answer EXCEPT ![r] = "rejected"]
          /\ UNCHANGED <<carried, stage>>
  /\ UNCHANGED <<stored, url>>

(* files.create.  It fails before or after Drive stored the file; without   *)
(* an id in its answer the next call, for 'fail-to-upload', fails.          *)
UploadFile(r, f) ==
  /\ stage[r][f] = "create"
  /\ \/ Store(r, f, "private") /\ Proceed(r, f, NextCall) /\ UNCHANGED url
     \/ Store(r, f, "private") /\ Reject(r, f)
     \/ UNCHANGED stored /\ Reject(r, f)
  /\ UNCHANGED carried

(* getPublicUrl: permissions.create. *)
ShareFile(r, f) ==
  /\ stage[r][f] = "share"
  /\ \/ Store(r, f, "public") /\ Proceed(r, f, "link") /\ UNCHANGED url
     \/ Store(r, f, "public") /\ Reject(r, f)
     \/ UNCHANGED stored /\ Reject(r, f)
  /\ UNCHANGED carried

(* getPublicUrl: files.get, and the entry of the response. *)
GetPublicUrl(r, f) ==
  /\ stage[r][f] = "link"
  /\ \/ /\ \E webViewLink \in BOOLEAN : url' = [url EXCEPT ![r][f] = UrlOf(webViewLink)]
        /\ SetStage(r, f, "done")
        /\ answer' = IF answer[r] = "pending" /\ LastDone(r, f)
                     THEN [answer EXCEPT ![r] = "created"] ELSE answer
     \/ Reject(r, f)
  /\ UNCHANGED <<carried, stored>>

(* The process dies, with everything it has under way. *)
Crash ==
  /\ \E r \in Requests, f \in Files : Underway(r, f)
  /\ stage' = [r \in Requests |->
                 [f \in Files |-> IF Underway(r, f) THEN "lost" ELSE stage[r][f]]]
  /\ answer' = [r \in Requests |-> IF answer[r] = "pending" THEN "lost" ELSE answer[r]]
  /\ UNCHANGED <<carried, stored, url>>

-----------------------------------------------------------------------------
Call(r, f) == UploadFile(r, f) \/ ShareFile(r, f) \/ GetPublicUrl(r, f)

Next ==
  \/ \E r \in Requests, endpoint \in Endpoints, F \in SUBSET Files : Post(r, endpoint, F)
  \/ \E r \in Requests, f \in Files : Call(r, f)
  \/ Crash

Spec == Init /\ [][Next]_vars

-----------------------------------------------------------------------------
(* Properties *)

(* The links a request was answered with lead to files that are in Drive    *)
(* and open to anyone, whatever failed or died after or beside it: the      *)
(* response waits for every file, and each for its permission.              *)
CreatedIsPublic ==
  \A r \in Requests : answer[r] = "created" =>
    /\ carried[r] # {}
    /\ \A f \in carried[r] : stored[r][f] = "public" /\ url[r][f] # "none" /\ stage[r][f] = "done"

(* A request that waits for its answer has a file under way and none that   *)
(* failed, and work goes on beside an answer only after an error: nothing   *)
(* of a request is forgotten, nor still running when it was answered well.  *)
NothingForgotten ==
  \A r \in Requests :
    /\ answer[r] = "pending" => (\E f \in Files : Underway(r, f)) /\ \A f \in Files : stage[r][f] # "failed"
    /\ (\E f \in Files : Underway(r, f)) => answer[r] \in {"pending", "error"}
=============================================================================
