----------------------------- MODULE MCCatalog -----------------------------
\* The kinds of row are told apart by their model values, for TLC.
EXTENDS Catalog, TLC

MCStars == {1}

\* Any two use cases that change the same row run together in one of these.
MCFamilies == {
  {"create-product", "update-product", "slug", "category",
   "create-category", "update-category", "delete-category"},
  {"update-product", "category", "active", "delete-product", "adjust-stock",
   "create-category", "delete-category"},
  {"create-product", "update-product", "stock", "delete-product", "adjust-stock", "sell"},
  {"update-product", "stock", "adjust-stock", "sell",
   "reviews", "approve-review", "delete-review"},
  {"delete-product", "sell", "reviews", "approve-review", "delete-review"},
  {"update-product", "category", "create-category", "delete-category",
   "reviews", "approve-review"},
  {"create-coupon", "update-coupon", "delete-coupon", "redeem", "create-banner",
   "update-banner", "delete-banner", "get-settings", "update-settings"}}

\* Nothing tells the members of these sets apart.
Symmetry == Permutations(Categories) \cup Permutations(Products) \cup
            Permutations(Customers) \cup Permutations(Editors) \cup Permutations(Keys)
=============================================================================
