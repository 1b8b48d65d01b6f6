----------------------------- MODULE MCStartup -------------------------------
(* Startup with the configurations of the repository, etc/host_config.xml  *)
(* and etc/1.xml, which has no p; a file that cannot be read comes on top. *)
EXTENDS Startup

MCConfigs ==
    {[captured_time |-> 60000000, nmax |-> 300000,
      a |-> <<1, 1>>, p |-> <<1, 100>>],
     [captured_time |-> 8000000, nmax |-> 100000,
      a |-> <<1, 10>>, p |-> <<0, 1>>]}
=============================================================================
