----------------------------- MODULE DavJobBase -----------------------------
(***************************************************************************)
(* What every KDAV job keeps besides its own data, and the questions an    *)
(* application asks of a finished job: DavJobBase and DavJobBasePrivate    *)
(* (src/src/common/davjobbase.cpp), ErrorNumber (daverror.h).              *)
(*                                                                         *)
(* A job's error state is the ErrorNumber handed to KJob::setError() and   *)
(* the latest HTTP response code; texts are left out.  A network reply is  *)
(* seen through QNetworkReply::error() and its HTTP status: the status is  *)
(* 0 when no answer was received at all, and a connection that breaks in   *)
(* the middle of an answer leaves an error beside a status such as 200.    *)
(***************************************************************************)
EXTENDS Integers

NO_ERR == "NO_ERR"

\* The ErrorNumbers the modelled jobs set.
ErrorNumber ==
    { NO_ERR, "ERR_PROBLEM_WITH_REQUEST", "ERR_ITEMLIST_NOMIMETYPE",
      "ERR_ITEMCREATE", "ERR_ITEMMODIFY", "ERR_ITEMDELETE", "ERR_ITEMMOVE",
      "ERR_COLLECTIONFETCH", "ERR_COLLECTIONCREATE", "ERR_COLLECTIONDELETE",
      "ERR_COLLECTIONMODIFY", "ERR_COLLECTIONMODIFY_NO_PROPERITES",
      "ERR_COLLECTIONMODIFY_RESPONSE", "ERR_SERVER_UNRECOVERABLE",
      "ERR_NO_MULTIGET", "ERR_MALFORMED_RESPONSE" }

\* The test of the jobs that parse a multistatus: a network-level error, or
\* an answer whose status says failure.
RequestFailed(netError, status) == netError \/ status \in 400 .. 599

\* The statuses canRetryLater() takes for a temporary condition.
RetryableCodes == {401, 402, 407, 408, 423, 429, 507, 511} \cup (501 .. 504)

\* DavJobBase::canRetryLater()
CanRetryLater(forceRetryLater, error, responseCode) ==
    \/ forceRetryLater
    \/ responseCode = 0 /\ error # NO_ERR
    \/ responseCode \in RetryableCodes

\* DavJobBase::hasConflict()
HasConflict(responseCode) == responseCode = 412

=============================================================================
