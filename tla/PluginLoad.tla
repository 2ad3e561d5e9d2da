----------------------------- MODULE PluginLoad -----------------------------
(***************************************************************************)
(* How a library of the plugin comes to be built, installed and loaded:    *)
(* setup.py, the guard both tools load behind, and the plugin's decision   *)
(* at load to offer devices or none (plugin_init.cc).                      *)
(*                                                                         *)
(* One interpreter has at most one TensorFlow; build/ and                  *)
(* site-packages/tensorflow-plugins hold at most one library each.  A      *)
(* library remembers whose headers it was compiled against and which tree  *)
(* of sources it was compiled from.  Nothing is installed or built while   *)
(* a process runs.                                                         *)
(***************************************************************************)
EXTENDS Sequences

CONSTANTS
  Versions,          \* minor releases of TensorFlow
  Pin,               \* TF_SUPPORTED_VERSION
  Trees,             \* states of the source tree
  Gpus,              \* what MTLCopyAllDevices returns
  HasUnifiedMemory,  \* those among them with unified memory
  NoTensorFlow, NoLibrary, NoProcess

ASSUME LoadAssumption ==
  /\ Pin \in Versions
  /\ HasUnifiedMemory \subseteq Gpus
  /\ NoTensorFlow \notin Versions

Libraries == [headers : Versions, tree : Trees]

Processes ==
  [tf : Versions, disabled : BOOLEAN, skip : BOOLEAN, loads : Seq(Libraries),
   devices : SUBSET Gpus, aborted : BOOLEAN]

ASSUME NoProcessAssumption == NoProcess \notin Processes

VARIABLES
  tensorflow,   \* the installed TensorFlow
  package,      \* the installed plugin
  dylib,        \* build/libmetal_plugin.dylib
  process       \* a Python process that has imported TensorFlow

loadVars == <<tensorflow, package, dylib, process>>

LoadTypeOK ==
  /\ tensorflow \in Versions \union {NoTensorFlow}
  /\ {package, dylib} \subseteq Libraries \union {NoLibrary}
  /\ process \in Processes \union {NoProcess}

LoadInit ==
  /\ tensorflow \in Versions \union {NoTensorFlow}
  /\ package = NoLibrary
  /\ dylib = NoLibrary
  /\ process = NoProcess

-----------------------------------------------------------------------------
(* Installing and building. *)

PipInstall(v) ==
  /\ process = NoProcess
  /\ v # tensorflow
  /\ tensorflow' = v
  /\ UNCHANGED <<package, dylib, process>>

Built(tree) == [headers |-> tensorflow, tree |-> tree]

\* setup.py and the Makefile alike find nothing to build against without it.
tensorflow_paths == tensorflow # NoTensorFlow

\* make goes by timestamps: the library it leaves is of this tree, or nothing
\* was newer than it and it is left as it is, which is no step.
Make(tree) ==
  /\ process = NoProcess
  /\ tensorflow_paths
  /\ dylib' = Built(tree)
  /\ UNCHANGED <<tensorflow, package, process>>

\* The one release the package depends on.
install_requires == Pin

\* pip runs BuildPlugin, which leaves the library in build/ too, before it
\* looks after install_requires.
InstallPlugin(tree) ==
  /\ process = NoProcess
  /\ tensorflow_paths
  /\ dylib' = Built(tree)
  /\ package' = Built(tree)
  /\ tensorflow' = install_requires
  /\ UNCHANGED process

-----------------------------------------------------------------------------
(* Loading. *)

\* Every TensorFlow that can load the plugin exports TF_Version.
StandDownReason(p) == p.disabled \/ (~p.skip /\ p.tf # Pin)

UsableDevices == {g \in Gpus : g \in HasUnifiedMemory}

SE_InitPlugin(p) == IF StandDownReason(p) THEN {} ELSE UsableDevices

\* TensorFlow's side: to register a platform twice is a CHECK failure.
Loaded(p, lib) ==
  IF p.loads = <<>>
  THEN [p EXCEPT !.loads = <<lib>>, !.devices = SE_InitPlugin(p)]
  ELSE [p EXCEPT !.loads = Append(@, lib), !.aborted = TRUE]

\* `import tensorflow' loads what is installed, offering devices or not.
Start(disabled, skip) ==
  /\ process = NoProcess
  /\ tensorflow # NoTensorFlow
  /\ LET p == [tf |-> tensorflow, disabled |-> disabled, skip |-> skip,
               loads |-> <<>>, devices |-> {}, aborted |-> FALSE]
     IN process' = IF package = NoLibrary THEN p ELSE Loaded(p, package)
  /\ UNCHANGED <<tensorflow, package, dylib>>

\* Mutant: the tools load build/ whatever was loaded.
LoadAnyway ==
  /\ process # NoProcess /\ ~process.aborted
  /\ dylib # NoLibrary
  /\ process' = Loaded(process, dylib)
  /\ UNCHANGED <<tensorflow, package, dylib>>

\* Both tools load build/ where there is no GPU device yet.
LoadPlugin ==
  /\ process # NoProcess /\ ~process.aborted
  /\ process.devices = {}
  /\ dylib # NoLibrary
  /\ process' = Loaded(process, dylib)
  /\ UNCHANGED <<tensorflow, package, dylib>>

End ==
  /\ process # NoProcess
  /\ process' = NoProcess
  /\ UNCHANGED <<tensorflow, package, dylib>>

-----------------------------------------------------------------------------
(* Properties. *)

\* What README.md:77-82 says: no device where the plugin was built for another
\* TensorFlow than the one that loads it.
OffersToItsBuildOnly ==
  process # NoProcess =>
    (process.devices # {} /\ ~process.skip
       => process.tf = process.loads[1].headers)

=============================================================================
