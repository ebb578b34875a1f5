----------------------------- MODULE MCPackages -----------------------------
(* A package of the distribution, and one of another repository.           *)
EXTENDS Packages

MCOrigin == [p \in Package |-> IF p = "curl" THEN "debian" ELSE "docker"]

Apt(name, state) ==
  [kind |-> "apt", name |-> name, state |-> state, upgrade |-> "", clean |-> FALSE, deb |-> FALSE,
   update |-> FALSE, valid |-> "none"]
Repository(repo, state, update) == [kind |-> "repo", repo |-> repo, state |-> state, update |-> update]

MCTasks == {
  Apt({"curl"}, ""),
  [Apt({"curl", "docker-ce"}, "latest") EXCEPT !.update = TRUE],
  [Apt({"curl", "docker-ce"}, "present") EXCEPT !.valid = "long"],
  Apt({"docker-ce"}, "absent"),
  [Apt({}, "") EXCEPT !.clean = TRUE, !.update = TRUE],
  [Apt({}, "") EXCEPT !.clean = TRUE, !.deb = TRUE, !.valid = "zero"],
  [Apt({}, "") EXCEPT !.upgrade = "dist", !.update = TRUE],
  [Apt({"curl", "docker-ce"}, "latest") EXCEPT !.upgrade = "safe", !.valid = "long"],
  [Apt({"curl"}, "") EXCEPT !.upgrade = "no"],
  [Apt({}, "") EXCEPT !.upgrade = "no", !.clean = TRUE],
  Repository("docker", "", TRUE),
  Repository("docker", "present", FALSE),
  Repository("docker", "absent", TRUE)}
=============================================================================
