---- MODULE MCTestRunner ----
EXTENDS TestRunner
====
