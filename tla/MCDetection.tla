------------------------------ MODULE MCDetection ------------------------------
(***************************************************************************)
(* Inputs of the detectors: model scores around the thresholds, and the     *)
(* features of URLs that tell the indicator scores apart.                   *)
(***************************************************************************)
EXTENDS Detection

\* Scores at both sides of every threshold; features that reach every rule score band.
MCModelScores ==
  {0, 20000, 20001, 29999, 30000, 34999, 35000, 35001, 44999, 45000, 54999, 55000, 64999, 65000, 70000,
   74999, 75000, 90000, 100000}
MCUrlFeatures ==
  {"ip_address_url", "suspicious_tld", "login_verify_terms", "credential_terms", "foreign_brand",
   "official_terms", "missing_https", "encoded_url_query"}
===============================================================================
