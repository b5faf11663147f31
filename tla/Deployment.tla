----------------------------- MODULE Deployment -----------------------------
(***************************************************************************)
(* What a desired-state asks for: the composition of the stack and the     *)
(* container spec of each service, as internal/deploy computes them.       *)
(* Pure definitions, no state.                                             *)
(***************************************************************************)
EXTENDS Naturals

CONSTANTS
    Configs,  \* the desired-states the cloud may publish
    Absent    \* stands for "no running container of that name"

(***************************************************************************)
(* The payload of a desired-state, reduced to the choices reconcile        *)
(* branches on.  image is the release the image references point at; a     *)
(* larger number is a later release, whose migrations include the earlier  *)
(* ones.                                                                   *)
(***************************************************************************)
DesiredState ==
    [ stopped     : BOOLEAN,   \* the operator took the deployment offline
      secretStore : BOOLEAN,   \* the secret store component is configured
      external    : BOOLEAN,   \* the database is the operator's own
      backup      : BOOLEAN,   \* the pgBackRest add-on of a managed database
      gitea       : BOOLEAN,   \* the Gitea add-on
      edge        : BOOLEAN,   \* managed edge with a base domain
      image       : Nat ]

Databases == {"managed", "external"}

Database(c) == IF c.external THEN "external" ELSE "managed"

(* pgBackRest of reconcile, hasBackups of runRestore *)
HasBackups(c) == ~c.external /\ c.backup

Apps == {"commerce-service", "core-server"}

CoreServices == {"redis", "nats"} \cup Apps

EdgeServices == {"acme-dns", "nginx"}

Services == CoreServices \cup EdgeServices \cup {"postgres", "gitea"}

(***************************************************************************)
(* A container spec, reduced to what makes its hash differ between two     *)
(* desired-states: Apply recreates a container exactly when it does.       *)
(***************************************************************************)
Specs == [image : Nat, external : BOOLEAN, archive : BOOLEAN, gitea : BOOLEAN]

SpecOf(s, c) ==
    [ image    |-> IF s = "acme-dns" THEN 0 ELSE c.image,
      external |-> s \in Apps \cup {"gitea"} /\ c.external,
      archive  |-> s = "postgres" /\ HasBackups(c),
      gitea    |-> s = "core-server" /\ c.gitea ]

(* The services reconcile has in its keep set when it reaches the prune. *)
Wanted(c) ==
    IF c.stopped
    THEN {}
    ELSE CoreServices
         \cup (IF c.external THEN {} ELSE {"postgres"})
         \cup (IF c.gitea THEN {"gitea"} ELSE {})
         \cup (IF c.edge THEN EdgeServices ELSE {})

(* The containers of a stack that fully matches a desired-state. *)
Stack(c) == [s \in Services |-> IF s \in Wanted(c) THEN SpecOf(s, c) ELSE Absent]

ASSUME ConfigsAssumption == Configs \subseteq DesiredState
ASSUME AbsentAssumption == Absent \notin Specs

=============================================================================
