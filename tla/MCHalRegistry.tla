---- MODULE MCHalRegistry ----
(* Constants for the runs of HalRegistry: the calls each run makes.            *)
EXTENDS HalRegistry

RegistryOps == {"hal_init", "hal_exit", "hal_ready", "hal_unready", "hal_export_funct",
                "hal_set_lock", "hal_start_threads", "hal_stop_threads"}
ThreadOps == {"hal_init", "hal_exit", "hal_export_funct", "hal_create_thread", "hal_thread_delete",
              "hal_add_funct_to_thread", "hal_del_funct_from_thread", "hal_app_exit"}
DeleteOps == {"hal_create_thread", "hal_thread_delete"}

\* The callers are interchangeable.
Symmetry == Permutations(Callers)

LastPosition == {-1}
EitherEnd == {-2, 1}
SamePeriod == [n \in ThreadNames |-> 1]
LockLoad == {{}, {"LOAD"}}
====
