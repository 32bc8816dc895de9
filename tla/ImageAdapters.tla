---------------------------- MODULE ImageAdapters ---------------------------
(* The image adapters by name: the program each runs, and what each promises *)
(* of the medium it publishes.                                               *)
EXTENDS UbuntuImage, FedoraImage, DebianImage, ElementaryImage, ArchImage

Programs ==
    [ubuntu |-> UbuntuProgram, fedora |-> FedoraProgram,
     debian |-> DebianProgram, elementary |-> ElementaryProgram,
     arch |-> ArchProgram]

Promises ==
    [ubuntu |-> UbuntuPromises, fedora |-> FedoraPromises,
     debian |-> DebianPromises, elementary |-> ElementaryPromises,
     arch |-> ArchPromises]

Things(program) ==
    UNION {program[i].of \cup program[i].from : i \in DOMAIN program}

(* What is promised to a request: for a companion only when one is asked for.*)
PromisesTo(request) ==
    {p \in Promises[request.adapter] \cup CompanionPromises :
       p.ifCompanion => request.companion}
=============================================================================
