----------------------------- MODULE FileTransfer -----------------------------
(* scripts/transferFiles.py beside the program that writes the files (see     *)
(* RunFiles): the script, started again and again, copies every file of the   *)
(* data directory to the storage site and moves it to a directory where it    *)
(* waits to be deleted.  get_lock() makes a second instance exit at once.     *)
(*                                                                            *)
(* `files` is what is in both directories; a name that is free in the data    *)
(* directory must be free in the other one too, or the move would replace a   *)
(* file: this is for the program with FilesNeverReplaced.                     *)
EXTENDS RunFiles

CONSTANTS
  MaxScripts,        (* bound: times the script is started                    *)
  NoFile

ASSUME TransferAssumption == MaxScripts \in Nat /\ NoFile \notin Labels

VARIABLES
  scriptAt,    (* where the script is; it may end anywhere                    *)
  todo,        (* the files it found and has not looked at                    *)
  file,        (* the one it is at                                            *)
  moved,       (* names of the files it has moved                             *)
  remote,      (* the files at the storage site                               *)
  notCopied,   (* names of those for which rsync failed                       *)
  scripts

script == <<scriptAt, todo, file, moved, remote, notCopied, scripts>>
transferVars == <<vars, script>>

Names == {r.name : r \in files}

TransferInit ==
  /\ Init
  /\ scriptAt = "off" /\ todo = {} /\ file = NoFile
  /\ moved = {} /\ remote = {} /\ notCopied = {} /\ scripts = 0

(* get_lock() and glob(): the temporary file is elsewhere.  A script that    *)
(* finds no file does nothing.                                               *)
StartScript ==
  /\ scriptAt = "off" /\ scripts < MaxScripts
  /\ scriptAt' = "next" /\ scripts' = scripts + 1
  /\ todo' = Names \ moved /\ todo' # {}
  /\ UNCHANGED <<file, moved, remote, notCopied>>

(* The oldest one.  FileIsGood(): a file that cannot be opened is left for   *)
(* the next time.                                                            *)
NextFile ==
  /\ scriptAt = "next" /\ todo # {}
  /\ \E n \in todo :
       /\ \A m \in todo : ~Before(m, n)
       /\ todo' = todo \ {n}
       /\ \/ scriptAt' = "rsync" /\ file' = n
          \/ UNCHANGED <<scriptAt, file>>
  /\ UNCHANGED <<moved, remote, notCopied, scripts>>

(* rsync replaces what the site has under the name; its result is not        *)
(* looked at.                                                                *)
Rsync ==
  /\ scriptAt = "rsync" /\ scriptAt' = "mv"
  /\ \/ /\ remote' = {r \in remote : r.name # file} \cup {r \in files : r.name = file}
        /\ UNCHANGED notCopied
     \/ /\ notCopied' = notCopied \cup {file}
        /\ UNCHANGED remote
  /\ UNCHANGED <<todo, file, moved, scripts>>

(* The result of mv is not looked at either: a file that stays is copied and *)
(* moved by a later script.                                                  *)
Move ==
  /\ scriptAt = "mv" /\ scriptAt' = "next"
  /\ moved' \in {moved, moved \cup {file}}
  /\ file' = NoFile
  /\ UNCHANGED <<todo, remote, notCopied, scripts>>

(* The end of the script, in whatever way, frees the lock. *)
EndScript ==
  /\ scriptAt # "off" /\ scriptAt' = "off"
  /\ todo' = {} /\ file' = NoFile
  /\ UNCHANGED <<moved, remote, notCopied, scripts>>

Script == StartScript \/ NextFile \/ Rsync \/ Move \/ EndScript

TransferNext ==
  \/ Next /\ UNCHANGED script
  \/ Script /\ UNCHANGED vars

TransferSpec == TransferInit /\ [][TransferNext]_transferVars

-----------------------------------------------------------------------------
(* Properties.                                                               *)

(* The script's variables keep their types. *)
TransferTypeOK ==
  /\ scriptAt \in {"off", "next", "rsync", "mv"}
  /\ todo \subseteq Labels /\ file \in Labels \cup {NoFile}
  /\ moved \subseteq Labels /\ notCopied \subseteq Labels
  /\ remote \subseteq [name : Labels, content : Content]
  /\ scripts \in 0..MaxScripts

(* What the storage site has of a file is the finished file, also when the   *)
(* program went on, crashed and started anew between the copy and the move,  *)
(* or the script was ended and started again; and every file that was moved  *)
(* exists and is at the site, unless its rsync failed.  A run list that      *)
(* fails lets the program replace a file, so it is left out.                 *)
TransfersComplete ==
  /\ TransferTypeOK
  /\ scriptAt \in {"rsync", "mv"} => file \in Names
  /\ todo \subseteq Names
  /\ moved \subseteq {r.name : r \in remote} \cup (Names \cap notCopied)
  /\ scriptAt = "mv" => file \in {r.name : r \in remote} \cup notCopied
  /\ ~listFailed => remote \subseteq files

=============================================================================
