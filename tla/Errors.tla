------------------------------- MODULE Errors -------------------------------
(***************************************************************************)
(* What a failure means to a caller (src/src/error.rs).  An error is its    *)
(* variant's name; Error::Status goes by the name of its status.  One that  *)
(* carries another (WritePartial, BothAttemptsFailed) is classified by the  *)
(* one it carries.                                                         *)
(***************************************************************************)

NotFoundStatuses == {"NO_SUCH_FILE", "OBJECT_NAME_NOT_FOUND", "OBJECT_PATH_NOT_FOUND",
                     "NOT_FOUND"}

\* status_kind.  Of the statuses that say the caller may not, or not yet, one each.
StatusKind(status) ==
    CASE status \in NotFoundStatuses -> "NotFound"
      [] status = "DIRECTORY_NOT_EMPTY" -> "DirectoryNotEmpty"
      [] status = "NOT_A_DIRECTORY" -> "NotADirectory"
      [] status = "FILE_IS_A_DIRECTORY" -> "IsADirectory"
      [] status = "INVALID_HANDLE" -> "InvalidInput"
      [] status \in {"OBJECT_NAME_COLLISION", "OBJECT_NAME_EXISTS"} -> "AlreadyExists"
      [] status = "ACCESS_DENIED" -> "PermissionDenied"
      [] status \in {"SHARING_VIOLATION", "PENDING"} -> "ResourceBusy"
      [] OTHER -> "Other"

\* Error::refused: three statuses are more than the refusal they look like.
Refused(status) ==
    CASE status = "INSUFF_SERVER_RESOURCES" -> "TransactionRefused"
      [] status = "NETWORK_NAME_DELETED" -> "TreeDisconnected"
      [] status = "USER_SESSION_DELETED" -> "ConnectionLost"
      [] OTHER -> status

\* From<connection::Error>: those that fail one request, and those after which
\* the connection is gone.
FromConnection(error) ==
    CASE error = "Io" -> "Io"
      [] error \in {"Wire", "Reassembly"} -> "Protocol"
      [] error = "Timeout" -> "RequestTimeout"
      [] OTHER -> "ConnectionLost"

\* Error::kind.
Kind(error) ==
    CASE error \in {"TransactionTooLarge", "InvalidPath", "ProgressInUse"} -> "InvalidInput"
      [] error = "TransactionRefused" -> "Other"
      [] error = "ConnectionLost" -> "ConnectionAborted"
      [] error = "TreeDisconnected" -> "NotConnected"
      [] error \in {"ConnectTimeout", "RequestTimeout"} -> "TimedOut"
      [] error = "Protocol" -> "InvalidData"
      [] error = "UnfilledSpan" -> "UnexpectedEof"
      [] error = "GuestLogon" -> "PermissionDenied"
      [] error \in {"SigningRequired", "UnsupportedServer"} -> "Unsupported"
      [] OTHER -> StatusKind(error)
=============================================================================
