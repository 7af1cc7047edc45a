----------------------------- MODULE PostServer -----------------------------
(***************************************************************************)
(* The server of src/iouring/framework/IouringPost.cpp: a thread of its    *)
(* own accepts the clients and posts each one as a record on a pipe; the   *)
(* ring reads the pipe and runs acceptHandler.  rwHandler is TcpServer's.  *)
(*                                                                         *)
(* The request Acceptor of TcpSocket is here the read of the pipe, and     *)
(* `opened` are the descriptors acceptHandler has been given.  A read      *)
(* returns up to IOPOST_BUFFSIZE bytes: whole records as long as no more   *)
(* than Chunk of them wait; acceptHandler looks at the first one.          *)
(***************************************************************************)
EXTENDS TcpServer, Sequences, SequencesExt

CONSTANT
  Chunk       (* whole records that fit in the buffer of one read          *)

ASSUME ChunkAssumption == Chunk \in Nat \ {0}

VARIABLES
  accepted,   (* the descriptors accept has returned to the thread         *)
  pipe,       (* the records on the pipe                                   *)
  inBuffer,   (* the records that the last read left in _iovev_buff        *)
  accepting   (* the thread has not left its loop                          *)

postVars == <<accepted, pipe, inBuffer, accepting>>

allVars == <<vars, postVars>>

PostInit ==
  /\ Init
  /\ accepted = {}
  /\ pipe = <<>>
  /\ inBuffer = <<>>
  /\ accepting = TRUE

----------------------------------------------------------------------------
(* The thread of IouringPost.                                              *)

(* accept returns a client, which is written to the pipe.                  *)
Post(c) ==
  /\ status = "running"
  /\ accepting
  /\ c \in Fd \ accepted
  /\ Len(pipe) < Chunk
  /\ accepted' = accepted \cup {c}
  /\ pipe' = Append(pipe, c)
  /\ UNCHANGED <<vars, inBuffer, accepting>>

(* accept fails: the thread ends, the server goes on.                      *)
AcceptFails ==
  /\ status = "running"
  /\ accepting
  /\ accepting' = FALSE
  /\ UNCHANGED <<vars, accepted, pipe, inBuffer>>

(* The kernel finishes the read of the pipe: it takes all there is.        *)
ReadPipe ==
  /\ Complete(Acceptor)
  /\ pipe # <<>>
  /\ inBuffer' = pipe
  /\ pipe' = <<>>
  /\ UNCHANGED <<socketVars, left, accepted, accepting>>

(* Mutant: the read of the pipe is not armed again.                        *)
PostedNotArmed ==
  /\ Dispatch(Acceptor)
  /\ inBuffer # <<>>
  /\ AddSocket(Head(inBuffer))
  /\ Broadcast(clients \cup {Head(inBuffer)}, {})
  /\ opened' = opened \cup {Head(inBuffer)}
  /\ UNCHANGED <<cq, run, left, postVars>>

(***************************************************************************)
(* acceptHandler: the first record of the buffer is the new client.        *)
(***************************************************************************)
PostedClient ==
  /\ Dispatch(Acceptor)
  /\ inBuffer # <<>>
  /\ NewClient(Head(inBuffer))
  /\ opened' = opened \cup {Head(inBuffer)}
  /\ UNCHANGED <<cq, run, left, postVars>>

(* The loop dispatches a completion.                                       *)
PostHandle ==
  \/ PostedClient
  \/ /\ \/ \E r \in Req : Fails(r)
        \/ \E c \in Fd : Sent(c) \/ Broken(c)
     /\ UNCHANGED postVars

(* The loop's own steps, and the kernel's for a send.                      *)
PostLoop == Loop /\ UNCHANGED postVars

SendEnds(c) == Finish(c) /\ UNCHANGED postVars

PostNext ==
  \/ PostLoop
  \/ PostHandle
  \/ AcceptFails
  \/ ReadPipe
  \/ \E c \in Fd : Post(c) \/ SendEnds(c)

PostSpec == PostInit /\ [][PostNext]_allVars

----------------------------------------------------------------------------
PostTypeOK ==
  /\ TypeOK
  /\ accepted \in SUBSET Fd
  /\ pipe \in Seq(Fd)
  /\ inBuffer \in Seq(Fd)
  /\ accepting \in BOOLEAN

(***************************************************************************)
(* To its clients this is TcpServer: taking the pipe and the thread away,  *)
(* every step is a step of TcpServer or none, so that what is proved of    *)
(* rounds and requests there holds here too: no descriptor is handed to    *)
(* acceptHandler twice, and one read of the pipe is in flight at a time,   *)
(* so the kernel never writes the buffer that acceptHandler is to look at. *)
(***************************************************************************)
ImplementsServer == Spec
=============================================================================
